---- MODULE Spec2Model ----
(***************************************************************************)
(* Protected-link bot (src/main.py): link store, membership gate,          *)
(* redemption endpoint, revocation.  Every pymongo call is one atomic      *)
(* storage operation; a handler is a sequence of such operations, and      *)
(* handlers of different requests (workers sharing the MongoDB database)   *)
(* interleave between storage operations.                                  *)
(***************************************************************************)
EXTENDS Integers, Sequences, FiniteSets, TLC

VARIABLES
    links,             \* links_collection: token -> document
    users,             \* users_collection: user_id -> document
    forced_groups,     \* forced_groups_collection: sequence of documents (find order)
    SUPPORT_CHANNELS,  \* os.environ["SUPPORT_CHANNELS"], split and stripped
    now,               \* datetime.datetime.now()
    req,               \* handlers in flight, between their lookup and their write
    lastOut,           \* the reply of the handler that completed last
    gate,              \* one evaluation of check_channel_membership: inputs and outcome
    gatePassed,        \* history: tokens for which a deep-link flow passed the gate
    hist,              \* history: per link, completed redemptions and revocations
    ops,               \* number of handlers started
    user_data,         \* context.user_data: user_id -> pending 'broadcast_message'
    broadcast_history, \* broadcast_collection: sequence of documents
    bcast,             \* handle_broadcast_confirmation in flight
    blog,              \* history: per broadcast record, the list, attempts and copies
    forced_links,      \* forced_links_collection: sequence of documents
    channels_collection, \* channels_collection: cached invite links
    invite,            \* one call of get_group_invite_link: inputs and result
    keyboards          \* inline buttons the bot has sent and the chat they are in

vars == <<links, users, forced_groups, SUPPORT_CHANNELS, now, req, lastOut,
          gate, gatePassed, hist, ops, user_data, broadcast_history, bcast, blog,
          forced_links, channels_collection, invite, keyboards>>

linkVars == <<links, forced_groups, SUPPORT_CHANNELS, now, req, lastOut,
              gate, gatePassed, hist, ops>>

broadcastVars == <<user_data, broadcast_history, bcast, blog>>

adminVars == <<forced_links, channels_collection, invite, keyboards>>

(***************************************************************************)
(* Bounds                                                                  *)
(***************************************************************************)
MaxUsers == 2
MaxLinks == 2
MaxWeb == 2
MaxInFlight == 2
MaxOps == 2
MaxForced == 2
MaxSupport == 1
MaxRecipients == 3
MaxBroadcasts == 2

Users == 1..MaxUsers

\* int(os.environ.get("ADMIN_ID", 0))
ADMIN_ID == 1

Min(a, b) == IF a < b THEN a ELSE b

(***************************************************************************)
(* Strings are sequences of characters, so that upper() and [:8] are       *)
(* computed.                                                               *)
(***************************************************************************)
UpperChar(c) ==
    CASE c = "j" -> "J"
      [] c = "k" -> "K"
      [] c = "w" -> "W"
      [] c = "z" -> "Z"
      [] c = "t" -> "T"
      [] OTHER -> c

Upper(s) == [i \in 1..Len(s) |-> UpperChar(s[i])]

ShortIdLen == 8

Prefix(s, n) == SubSeq(s, 1, Min(n, Len(s)))

\* base64 text of a uuid4 string; the "-" of the uuid always encodes to a
\* lower-case "t", here the last character
Tok(c) == <<"M", c, "A", "w", "N", "z", "Q", "2", "t">>

TokenPool == {Tok("j"), Tok("J"), Tok("k")}

ShortId(encoded_id) == Upper(Prefix(encoded_id, ShortIdLen))

\* a url is <<scheme-and-host prefix, rest>>
TME == "https://t.me/"

StartsWithTme(arg) == Len(arg) > 0 /\ arg[1] = TME

LinkArgs == {<<TME, "grp">>, <<TME, "+inv">>, <<"http://evil/", "x">>, <<>>}

(***************************************************************************)
(* Membership gate                                                         *)
(***************************************************************************)
\* channel identifiers: "@name", "name", "-100..." and "+invitehash"; kind
\* "at" stands for the prefix "@" and kind "num" for the prefix "-100", the
\* name is the text after the prefix (the whole text for the other kinds)
IdAt   == [kind |-> "at",   name |-> "grp"]
IdBare == [kind |-> "bare", name |-> "grp"]
IdNum  == [kind |-> "num",  name |-> "7"]
IdPlus == [kind |-> "plus", name |-> "+inv"]

\* chat_id passed to get_chat_member
ChatIdOf(channel_id) ==
    IF channel_id.kind = "num" THEN channel_id
    ELSE IF channel_id.kind = "at" THEN channel_id
    ELSE [kind |-> "at", name |-> channel_id.name]

SupportIds == {IdAt, IdBare, IdNum}

\* documents forcegroup_command inserts: a username link is public, an
\* invite link or a /c/ link is private
ForcedGroupDocs ==
    { [group_id |-> IdAt,   is_public |-> TRUE,  group_link |-> <<TME, "", "grp">>],
      [group_id |-> IdNum,  is_public |-> FALSE, group_link |-> <<TME, "c/", "7">>],
      [group_id |-> IdPlus, is_public |-> FALSE, group_link |-> <<TME, "+", "inv">>] }

Chats == {ChatIdOf(i) : i \in SupportIds \cup {d.group_id : d \in ForcedGroupDocs}}

GoodStatus == {"member", "administrator", "creator"}
MemberStatus == GoodStatus \cup {"left", "kicked", "restricted"}
\* outcome of get_chat_member: a status, or a raised error
QueryOutcome == MemberStatus \cup {"error"}
AnswerFns == [Chats -> QueryOutcome]

get_required_channels ==
    [i \in 1..Len(SUPPORT_CHANNELS) |->
        [id |-> SUPPORT_CHANNELS[i], type |-> "support", is_public |-> TRUE,
         invite_link |-> <<>>]]
    \o
    [i \in 1..Len(forced_groups) |->
        [id |-> forced_groups[i].group_id, type |-> "forced",
         is_public |-> forced_groups[i].is_public,
         invite_link |-> forced_groups[i].group_link]]

ChannelSkipped_never(channel_info) == FALSE

\* "if not channel_info.get('is_public', True): continue"
ChannelSkipped(channel_info) == ~channel_info.is_public

QueryPasses_restricted(a) == a \in GoodStatus \cup {"restricted"}

QueryPasses_failopen(a) == a \in GoodStatus \cup {"error"}

\* the try block of one loop iteration: TRUE = go on, FALSE = return False
QueryPasses(a) == a \in GoodStatus

RECURSIVE MembershipLoop_any(_, _, _, _)
MembershipLoop_any(channels, i, ans, queried) ==
    IF i > Len(channels)
    THEN [raised |-> FALSE, result |-> FALSE, queried |-> queried]
    ELSE IF ChannelSkipped(channels[i])
         THEN MembershipLoop_any(channels, i + 1, ans, queried)
         ELSE LET chat == ChatIdOf(channels[i].id)
                  q == Append(queried, chat)
              IN  IF QueryPasses(ans[chat])
                  THEN [raised |-> FALSE, result |-> TRUE, queried |-> q]
                  ELSE MembershipLoop_any(channels, i + 1, ans, q)

RECURSIVE MembershipLoop(_, _, _, _)
MembershipLoop(channels, i, ans, queried) ==
    IF i > Len(channels)
    THEN [raised |-> FALSE, result |-> TRUE, queried |-> queried]
    ELSE IF ChannelSkipped(channels[i])
         THEN MembershipLoop(channels, i + 1, ans, queried)
         ELSE LET chat == ChatIdOf(channels[i].id)
                  q == Append(queried, chat)
              IN  IF QueryPasses(ans[chat])
                  THEN MembershipLoop(channels, i + 1, ans, q)
                  ELSE [raised |-> FALSE, result |-> FALSE, queried |-> q]

check_channel_membership_mandatory(ans, dbFail) ==
    IF dbFail
    THEN [raised |-> TRUE, result |-> FALSE, queried |-> <<>>]
    ELSE IF get_required_channels = <<>>
    THEN [raised |-> FALSE, result |-> FALSE, queried |-> <<>>]
    ELSE MembershipLoop(get_required_channels, 1, ans, <<>>)

\* dbFail: forced_groups_collection.find raises; the call is outside the try.
\* "if not channels: return True" precedes the loop.
check_channel_membership(ans, dbFail) ==
    IF dbFail
    THEN [raised |-> TRUE, result |-> FALSE, queried |-> <<>>]
    ELSE IF get_required_channels = <<>>
    THEN [raised |-> FALSE, result |-> TRUE, queried |-> <<>>]
    ELSE MembershipLoop(get_required_channels, 1, ans, <<>>)

(***************************************************************************)
(* Sequences without repetition, of length at most n, over a set           *)
(***************************************************************************)
RECURSIVE SeqsUpTo(_, _)
SeqsUpTo(S, n) ==
    IF n = 0 THEN {<<>>}
    ELSE LET shorter == SeqsUpTo(S, n - 1)
         IN  shorter \cup {Append(q, x) : q \in shorter, x \in S}

NoRepeat(q) == \A i, j \in 1..Len(q) : i # j => q[i] # q[j]

\* forced_groups has a unique index on group_id
ForcedGroupConfigs ==
    {q \in SeqsUpTo(ForcedGroupDocs, MaxForced) :
        NoRepeat([i \in 1..Len(q) |-> q[i].group_id])}

SupportConfigs == SeqsUpTo(SupportIds, MaxSupport)

NoOutcome == [raised |-> FALSE, result |-> FALSE, queried |-> <<>>]

(***************************************************************************)
(* Link store operations (pymongo calls on links_collection)               *)
(***************************************************************************)
NewLink_clicked(encoded_id, telegram_link, user_id, t) ==
    [_id |-> encoded_id,
     short_id |-> ShortId(encoded_id),
     telegram_link |-> telegram_link,
     created_by |-> user_id,
     created_at |-> t,
     active |-> TRUE,
     revoked_at |-> <<>>,
     clicks |-> 1]

\* the document protect_command inserts
NewLink(encoded_id, telegram_link, user_id, t) ==
    [_id |-> encoded_id,
     short_id |-> ShortId(encoded_id),
     telegram_link |-> telegram_link,
     created_by |-> user_id,
     created_at |-> t,
     active |-> TRUE,
     revoked_at |-> <<>>,
     clicks |-> 0]

InsertLink_replace(ls, doc) ==
    [t \in DOMAIN ls \cup {doc._id} |-> IF t = doc._id THEN doc ELSE ls[t]]

\* insert_one: a duplicate _id raises DuplicateKeyError and writes nothing
InsertLink(ls, doc) ==
    IF doc._id \in DOMAIN ls THEN ls ELSE (doc._id :> doc) @@ ls

FindOneActive_anyState(ls, token) ==
    IF token \in DOMAIN ls THEN <<ls[token]>> ELSE <<>>

\* find_one({"_id": token, "active": True}): <<>> is None
FindOneActive(ls, token) ==
    IF token \in DOMAIN ls /\ ls[token].active THEN <<ls[token]>> ELSE <<>>

\* the documents matching the query of revoke_command
RevokeQueryMatches(ls, link_id, user_id) ==
    {t \in DOMAIN ls :
        /\ (ls[t].short_id = link_id \/ ls[t]._id = link_id)
        /\ ls[t].created_by = user_id
        /\ ls[t].active}

IncClicks_rmw(ls, token, link_data) ==
    IF token \in DOMAIN ls
    THEN [ls EXCEPT ![token].clicks = link_data.clicks + 1]
    ELSE ls

IncClicks_all(ls, token, link_data) ==
    [t \in DOMAIN ls |-> [ls[t] EXCEPT !.clicks = @ + 1]]

\* update_one({"_id": token}, {"$inc": {"clicks": 1}})
IncClicks(ls, token, link_data) ==
    IF token \in DOMAIN ls
    THEN [ls EXCEPT ![token].clicks = @ + 1]
    ELSE ls

SetRevoked_byShortId(ls, id, t) ==
    [x \in DOMAIN ls |->
        IF id \in DOMAIN ls /\ ls[x].short_id = ls[id].short_id
        THEN [ls[x] EXCEPT !.active = FALSE, !.revoked_at = <<t>>]
        ELSE ls[x]]

SetRevoked_delete(ls, id, t) ==
    [x \in DOMAIN ls \ {id} |-> ls[x]]

SetRevoked_reset(ls, id, t) ==
    IF id \in DOMAIN ls
    THEN [ls EXCEPT ![id].active = FALSE, ![id].revoked_at = <<t>>, ![id].clicks = 0]
    ELSE ls

\* update_one({"_id": id}, {"$set": {"active": False, "revoked_at": now}})
SetRevoked(ls, id, t) ==
    IF id \in DOMAIN ls
    THEN [ls EXCEPT ![id].active = FALSE, ![id].revoked_at = <<t>>]
    ELSE ls

ButtonMayRevoke_anyone(link_data, user_id) == TRUE

\* handle_revoke_link: link_data['created_by'] != query.from_user.id
ButtonMayRevoke(link_data, user_id) == link_data.created_by = user_id

\* users_collection.update_one({"user_id": u}, {"$set": ...}, upsert=True)
UpsertUser(us, user_id, t) ==
    [u \in DOMAIN us \cup {user_id} |->
        IF u = user_id THEN [user_id |-> user_id, last_active |-> t] ELSE us[u]]

\* what the token denotes in the store (history value kept with a request)
TokenState(ls, token) ==
    IF token \notin DOMAIN ls THEN "unknown"
    ELSE IF ls[token].active THEN "active" ELSE "revoked"

(***************************************************************************)
(* Handlers in flight.  A handler that has done its lookup and not yet its *)
(* write occupies a slot; a handler that completes leaves its reply in     *)
(* lastOut.                                                                *)
(***************************************************************************)
Slots == 1..MaxInFlight

Idle == [op |-> "idle", user |-> 0, arg |-> <<>>, link_data |-> <<>>]

\* slots are taken lowest first
Free(i) == req[i].op = "idle" /\ \A j \in 1..(i - 1) : req[j].op # "idle"

Out(op, user_id, arg, reply, url, saw, link_data) ==
    [op |-> op, user |-> user_id, arg |-> arg, reply |-> reply, url |-> url,
     saw |-> saw, link_data |-> link_data]

NoOut == Out("none", 0, <<>>, "none", <<>>, "none", <<>>)

\* replies are recorded by the specifications that observe them
Unobserved == Out("off", 0, <<>>, "none", <<>>, "none", <<>>)

Record(out) == IF lastOut = Unobserved THEN lastOut ELSE out

RecOut(op, user_id, arg, reply, url, saw, link_data) ==
    Record(Out(op, user_id, arg, reply, url, saw, link_data))

\* answers of get_chat_member during one handler
HandlerAnswers == {[c \in Chats |-> a] : a \in {"member", "left", "error"}}

\* arguments a user can type after /revoke
RevokeArgs == TokenPool \cup {ShortId(t) : t \in TokenPool}

\* history counters per link
Count(t, field) ==
    IF t \in DOMAIN hist THEN [hist EXCEPT ![t][field] = @ + 1] ELSE hist

InFlightWeb(token) ==
    Cardinality({i \in Slots : req[i].op = "get_group_link" /\ req[i].arg = token})

(***************************************************************************)
(* get_group_link                                                          *)
(***************************************************************************)
WebLookup(i, token) ==
    /\ Free(i)
    /\ token \in DOMAIN hist => hist[token].calls + InFlightWeb(token) < MaxWeb
    /\ LET link_data == FindOneActive(links, token)
       IN  IF link_data # <<>>
           THEN /\ req' = [req EXCEPT ![i] =
                        [op |-> "get_group_link", user |-> 0, arg |-> token,
                         link_data |-> link_data]]
                /\ UNCHANGED <<lastOut, hist>>
           ELSE /\ lastOut' = RecOut("get_group_link", 0, token, "404", <<>>,
                                  TokenState(links, token), <<>>)
                /\ hist' = Count(token, "calls")
                /\ UNCHANGED req
    /\ UNCHANGED <<links, users, forced_groups, SUPPORT_CHANNELS, now, gate, gatePassed>>
    /\ UNCHANGED broadcastVars
    /\ UNCHANGED adminVars

WebIncrement(i) ==
    /\ req[i].op = "get_group_link"
    /\ links' = IncClicks(links, req[i].arg, req[i].link_data[1])
    /\ lastOut' = RecOut("get_group_link", 0, req[i].arg, "200",
                      req[i].link_data[1].telegram_link,
                      IF req[i].link_data[1].active THEN "active" ELSE "revoked",
                      req[i].link_data)
    /\ hist' = IF req[i].arg \in DOMAIN hist
               THEN [hist EXCEPT ![req[i].arg].calls = @ + 1, ![req[i].arg].urls = @ + 1]
               ELSE hist
    /\ req' = [req EXCEPT ![i] = Idle]
    /\ UNCHANGED <<users, forced_groups, SUPPORT_CHANNELS, now, gate, gatePassed>>
    /\ UNCHANGED broadcastVars
    /\ UNCHANGED adminVars

(***************************************************************************)
(* protect_command                                                         *)
(***************************************************************************)
protect_command(user_id, arg, encoded_id, ans, dbFail) ==
    /\ Cardinality(DOMAIN links) < MaxLinks
    /\ LET g == check_channel_membership(ans, dbFail)
           doc == NewLink(encoded_id, arg, user_id, now)
           reply == IF g.raised THEN "exception"
                    ELSE IF ~g.result THEN "join_required"
                    ELSE IF ~StartsWithTme(arg) THEN "usage"
                    ELSE IF encoded_id \in DOMAIN links THEN "exception"
                    ELSE "created"
       IN  /\ links' = IF g.raised \/ ~g.result \/ ~StartsWithTme(arg)
                       THEN links ELSE InsertLink(links, doc)
           /\ hist' = [t \in DOMAIN links' |->
                          IF t \in DOMAIN hist THEN hist[t]
                          ELSE [calls |-> 0, urls |-> 0, revoked_ok |-> 0]]
           /\ lastOut' = RecOut("protect", user_id, arg, reply, <<>>, "none", <<>>)
    /\ UNCHANGED <<users, forced_groups, SUPPORT_CHANNELS, now, req, gate, gatePassed>>
    /\ UNCHANGED broadcastVars
    /\ UNCHANGED adminVars

(***************************************************************************)
(* revoke_command (with an argument) and handle_revoke_link                *)
(***************************************************************************)
\* what the identifier, as the caller typed it, denotes for the caller
\* (history value)
RevokeTargetState(ls, named, user_id) ==
    IF named = {} THEN "unknown"
    ELSE IF \E t \in named : ls[t].active /\ ls[t].created_by = user_id
         THEN "own_active"
    ELSE IF \E t \in named : ls[t].active THEN "foreign_active"
    ELSE "revoked"

revoke_command_lookup(i, user_id, arg, ans, dbFail) ==
    /\ Free(i)
    /\ LET g == check_channel_membership(ans, dbFail)
           link_id == Upper(arg)
           matches == RevokeQueryMatches(links, link_id, user_id)
           named == {t \in DOMAIN links :
                        links[t].short_id = arg \/ links[t]._id = arg}
       IN  IF g.raised \/ ~g.result
           THEN /\ lastOut' = RecOut("revoke_command", user_id, arg,
                                  IF g.raised THEN "exception" ELSE "join_required",
                                  <<>>, "none", <<>>)
                /\ UNCHANGED req
           ELSE IF matches = {}
           THEN /\ lastOut' = RecOut("revoke_command", user_id, arg, "link_not_found",
                                  <<>>, RevokeTargetState(links, named, user_id), <<>>)
                /\ UNCHANGED req
           ELSE /\ \E t \in matches :
                      req' = [req EXCEPT ![i] =
                          [op |-> "revoke_command", user |-> user_id, arg |-> arg,
                           link_data |-> <<links[t]>>]]
                /\ UNCHANGED lastOut
    /\ UNCHANGED <<links, users, forced_groups, SUPPORT_CHANNELS, now, gate, gatePassed,
                   hist>>
    /\ UNCHANGED broadcastVars
    /\ UNCHANGED adminVars

\* callback data revoke_<link_id>; the data of a callback query is chosen by
\* the client
handle_revoke_link_lookup(i, user_id, link_id) ==
    /\ Free(i)
    /\ LET link_data == FindOneActive(links, link_id)
           saw == RevokeTargetState(links, {link_id} \cap DOMAIN links, user_id)
       IN  IF link_data = <<>>
           THEN /\ lastOut' = RecOut("handle_revoke_link", user_id, link_id,
                                  "not_found_or_revoked", <<>>, saw, <<>>)
                /\ UNCHANGED req
           ELSE IF ~ButtonMayRevoke(link_data[1], user_id)
           THEN /\ lastOut' = RecOut("handle_revoke_link", user_id, link_id,
                                  "no_permission", <<>>, saw, <<>>)
                /\ UNCHANGED req
           ELSE /\ req' = [req EXCEPT ![i] =
                        [op |-> "handle_revoke_link", user |-> user_id, arg |-> link_id,
                         link_data |-> link_data]]
                /\ UNCHANGED lastOut
    /\ UNCHANGED <<links, users, forced_groups, SUPPORT_CHANNELS, now, gate, gatePassed,
                   hist>>
    /\ UNCHANGED broadcastVars
    /\ UNCHANGED adminVars

\* the update_one and the "Link Revoked!" reply of either path
RevokeUpdate(i) ==
    /\ req[i].op \in {"revoke_command", "handle_revoke_link"}
    /\ links' = SetRevoked(links, req[i].link_data[1]._id, now)
    /\ lastOut' = RecOut(req[i].op, req[i].user, req[i].arg, "link_revoked", <<>>,
                      IF ~req[i].link_data[1].active THEN "revoked"
                      ELSE IF req[i].link_data[1].created_by = req[i].user
                           THEN "own_active" ELSE "foreign_active",
                      req[i].link_data)
    /\ hist' = Count(req[i].link_data[1]._id, "revoked_ok")
    /\ req' = [req EXCEPT ![i] = Idle]
    /\ UNCHANGED <<users, forced_groups, SUPPORT_CHANNELS, now, gate, gatePassed>>
    /\ UNCHANGED broadcastVars
    /\ UNCHANGED adminVars

(***************************************************************************)
(* Deep-link flows: start <token> and the check_join_<token> callback      *)
(***************************************************************************)
\* the evaluation of the gate made by a handler is kept by the
\* specifications that observe it
WatchGate(ans, dbFail, out) ==
    IF gate.pc = "watch" THEN [gate EXCEPT !.ans = ans, !.dbFail = dbFail, !.out = out]
    ELSE gate

DeepBegin(i, op, user_id, token, ans, dbFail, failReply) ==
    LET g == check_channel_membership(ans, dbFail)
    IN  /\ gate' = WatchGate(ans, dbFail, g)
        /\ IF g.raised \/ ~g.result
           THEN /\ lastOut' = RecOut(op, user_id, token,
                                  IF g.raised THEN "exception" ELSE failReply,
                                  <<>>, "none", <<>>)
                /\ UNCHANGED <<req, gatePassed>>
           ELSE /\ req' = [req EXCEPT ![i] =
                        [op |-> op, user |-> user_id, arg |-> token, link_data |-> <<>>]]
                /\ gatePassed' = gatePassed \cup {token}
                /\ UNCHANGED lastOut
        /\ UNCHANGED <<links, forced_groups, SUPPORT_CHANNELS, now, hist>>
        /\ UNCHANGED broadcastVars
        /\ UNCHANGED adminVars

start_begin(i, user_id, token, ans, dbFail) ==
    /\ Free(i)
    /\ users' = UpsertUser(users, user_id, now)
    /\ DeepBegin(i, "start", user_id, token, ans, dbFail, "join_required")

check_join_begin(i, user_id, token, ans, dbFail) ==
    /\ Free(i)
    /\ users' = users
    /\ DeepBegin(i, "check_join", user_id, token, ans, dbFail, "alert_not_joined")

DeepLookup_counts(i) ==
    /\ req[i].op \in {"start", "check_join"}
    /\ lastOut' = RecOut(req[i].op, req[i].user, req[i].arg,
                      IF FindOneActive(links, req[i].arg) # <<>>
                      THEN "join_button" ELSE "expired_or_revoked",
                      <<>>, TokenState(links, req[i].arg), <<>>)
    /\ req' = [req EXCEPT ![i] = Idle]
    /\ links' = IncClicks(links, req[i].arg, <<>>)
    /\ UNCHANGED <<users, forced_groups, SUPPORT_CHANNELS, now, gate, gatePassed, hist>>
    /\ UNCHANGED broadcastVars
    /\ UNCHANGED adminVars

\* the lookup and the reply of a deep-link flow that passed the gate
DeepLookup(i) ==
    /\ req[i].op \in {"start", "check_join"}
    /\ lastOut' = RecOut(req[i].op, req[i].user, req[i].arg,
                      IF FindOneActive(links, req[i].arg) # <<>>
                      THEN "join_button" ELSE "expired_or_revoked",
                      <<>>, TokenState(links, req[i].arg), <<>>)
    /\ req' = [req EXCEPT ![i] = Idle]
    /\ UNCHANGED <<links, users, forced_groups, SUPPORT_CHANNELS, now, gate, gatePassed,
                   hist>>
    /\ UNCHANGED broadcastVars
    /\ UNCHANGED adminVars

(***************************************************************************)
(* Handlers that only read: the /join page, /revoke without an argument    *)
(* (the listing of the caller's active links) and /stats                   *)
(***************************************************************************)
join_page(token) ==
    /\ req[1] = Idle
    /\ lastOut' = RecOut("join_page", 0, token, "join_html", <<>>, "none", <<>>)
    /\ UNCHANGED <<links, users, forced_groups, SUPPORT_CHANNELS, now, req, gate,
                   gatePassed, hist>>
    /\ UNCHANGED broadcastVars
    /\ UNCHANGED adminVars

\* links_collection.find({"created_by": user_id, "active": True}, ...)
ActiveLinksOf(ls, user_id) ==
    {t \in DOMAIN ls : ls[t].created_by = user_id /\ ls[t].active}

\* limit=10 of the listing query
ListLimit == 10

\* sort=[("created_at", -1)]: newest first; the order among equal
\* timestamps is the store's
RECURSIVE SortByCreatedDesc(_, _)
SortByCreatedDesc(ls, S) ==
    IF S = {} THEN <<>>
    ELSE LET t == CHOOSE x \in S : \A y \in S : ls[y].created_at <= ls[x].created_at
         IN  <<ls[t]>> \o SortByCreatedDesc(ls, S \ {t})

FindActiveLinks_nolimit(ls, user_id) ==
    SortByCreatedDesc(ls, ActiveLinksOf(ls, user_id))

\* links_collection.find({"created_by": user_id, "active": True},
\*                       sort=[("created_at", -1)], limit=10)
FindActiveLinks(ls, user_id) ==
    Prefix(SortByCreatedDesc(ls, ActiveLinksOf(ls, user_id)), ListLimit)

revoke_command_listing(user_id, ans, dbFail) ==
    /\ req[1] = Idle
    /\ LET g == check_channel_membership(ans, dbFail)
           reply == IF g.raised THEN "exception"
                    ELSE IF ~g.result THEN "join_required"
                    ELSE IF FindActiveLinks(links, user_id) = <<>> THEN "no_active_links"
                    ELSE "active_links"
       IN  lastOut' = RecOut("revoke_listing", user_id, <<>>, reply, <<>>, "none",
                             IF reply = "active_links" THEN FindActiveLinks(links, user_id)
                             ELSE <<>>)
    /\ UNCHANGED <<links, users, forced_groups, SUPPORT_CHANNELS, now, req, gate,
                   gatePassed, hist>>
    /\ UNCHANGED broadcastVars
    /\ UNCHANGED adminVars

stats_command(user_id) ==
    /\ req[1] = Idle
    /\ lastOut' = RecOut("stats", user_id, <<>>,
                      IF user_id # ADMIN_ID THEN "admin_required" ELSE "stats",
                      <<>>, "none", <<>>)
    /\ UNCHANGED <<links, users, forced_groups, SUPPORT_CHANNELS, now, req, gate,
                   gatePassed, hist>>
    /\ UNCHANGED broadcastVars
    /\ UNCHANGED adminVars

(***************************************************************************)
(* Broadcast: broadcast_command, the confirm_broadcast callback and        *)
(* handle_broadcast_confirmation.  The handler awaits after every copy, so  *)
(* every loop iteration is a step.                                         *)
(***************************************************************************)
Recipients == 1..MaxRecipients

\* the replied-to message kept in context.user_data; <<>> is None
TheMessage == <<"msg">>

IdleBroadcast ==
    [pc |-> "idle", from_user |-> 0, list |-> <<>>, i |-> 0, total_users |-> 0,
     successful |-> 0, failed |-> 0, message_to_broadcast |-> <<>>,
     attempts |-> <<>>, copies |-> <<>>]

IdleInvite == [pc |-> "idle"]

NoAdmin ==
    /\ forced_links = << >>
    /\ channels_collection = << >>
    /\ invite = IdleInvite
    /\ keyboards = {}

NoBroadcast ==
    /\ user_data = << >>
    /\ broadcast_history = <<>>
    /\ bcast = IdleBroadcast
    /\ blog = <<>>

\* list(users_collection.find({})): the documents, in the order find returns
RECURSIVE UsersList(_, _)
UsersList(us, S) ==
    IF S = {} THEN <<>>
    ELSE LET m == CHOOSE x \in S : \A y \in S : x <= y
         IN  <<us[m]>> \o UsersList(us, S \ {m})

\* context.user_data.get('broadcast_message') of the user of the update
PendingMessage(ud, user_id) ==
    IF user_id \in DOMAIN ud THEN ud[user_id] ELSE <<>>

\* store_message: a non-command message; the registry is touched only in a
\* private chat
store_message(user_id, private) ==
    /\ users' = IF private THEN UpsertUser(users, user_id, now) ELSE users
    /\ UNCHANGED linkVars
    /\ UNCHANGED broadcastVars
    /\ UNCHANGED adminVars

broadcast_command(user_id, has_reply) ==
    /\ user_data' =
           IF user_id = ADMIN_ID /\ has_reply
           THEN [u \in DOMAIN user_data \cup {user_id} |->
                    IF u = user_id THEN TheMessage ELSE user_data[u]]
           ELSE user_data
    /\ UNCHANGED <<users, broadcast_history, bcast, blog>>
    /\ UNCHANGED linkVars
    /\ UNCHANGED adminVars

\* button_callback with data "confirm_broadcast", up to the first iteration
confirm_broadcast(user_id) ==
    /\ bcast.pc = "idle"
    /\ Len(broadcast_history) < MaxBroadcasts
    /\ LET list == UsersList(users, DOMAIN users)
       IN  bcast' = [pc |-> "sending", from_user |-> user_id, list |-> list, i |-> 1,
                     total_users |-> Len(list), successful |-> 0, failed |-> 0,
                     message_to_broadcast |-> PendingMessage(user_data, user_id),
                     attempts |-> <<>>, copies |-> <<>>]
    /\ UNCHANGED <<users, user_data, broadcast_history, blog>>
    /\ UNCHANGED linkVars
    /\ UNCHANGED adminVars

\* button_callback with data "cancel_broadcast": edits the message only
cancel_broadcast(user_id) ==
    /\ UNCHANGED <<users, user_data, broadcast_history, bcast, blog>>
    /\ UNCHANGED linkVars
    /\ UNCHANGED adminVars

DeliverOne_abort(b, ok) ==
    LET user == b.list[b.i]
    IN  IF b.message_to_broadcast = <<>>
        THEN [b EXCEPT !.failed = @ + 1, !.i = @ + 1,
                       !.attempts = Append(@, [to |-> user.user_id, ok |-> FALSE])]
        ELSE IF ok
        THEN [b EXCEPT !.successful = @ + 1, !.i = @ + 1,
                       !.attempts = Append(@, [to |-> user.user_id, ok |-> TRUE]),
                       !.copies = Append(@, user.user_id)]
        ELSE [b EXCEPT !.failed = @ + 1, !.i = Len(b.list) + 1,
                       !.attempts = Append(@, [to |-> user.user_id, ok |-> FALSE]),
                       !.copies = Append(@, user.user_id)]

DeliverOne_raise(b, ok) ==
    LET user == b.list[b.i]
    IN  IF b.message_to_broadcast = <<>>
        THEN [b EXCEPT !.failed = @ + 1, !.i = @ + 1,
                       !.attempts = Append(@, [to |-> user.user_id, ok |-> FALSE])]
        ELSE IF ok
        THEN [b EXCEPT !.successful = @ + 1, !.i = @ + 1,
                       !.attempts = Append(@, [to |-> user.user_id, ok |-> TRUE]),
                       !.copies = Append(@, user.user_id)]
        ELSE [b EXCEPT !.pc = "raised",
                       !.attempts = Append(@, [to |-> user.user_id, ok |-> FALSE]),
                       !.copies = Append(@, user.user_id)]

\* one iteration of "for user in users": the try block and its except.
\* With no pending message, None.copy raises AttributeError before anything
\* is sent, and the except counts it.
DeliverOne(b, ok) ==
    LET user == b.list[b.i]
    IN  IF b.message_to_broadcast = <<>>
        THEN [b EXCEPT !.failed = @ + 1, !.i = @ + 1,
                       !.attempts = Append(@, [to |-> user.user_id, ok |-> FALSE])]
        ELSE IF ok
        THEN [b EXCEPT !.successful = @ + 1, !.i = @ + 1,
                       !.attempts = Append(@, [to |-> user.user_id, ok |-> TRUE]),
                       !.copies = Append(@, user.user_id)]
        ELSE [b EXCEPT !.failed = @ + 1, !.i = @ + 1,
                       !.attempts = Append(@, [to |-> user.user_id, ok |-> FALSE]),
                       !.copies = Append(@, user.user_id)]

BroadcastDeliver(ok) ==
    /\ bcast.pc = "sending"
    /\ bcast.i <= Len(bcast.list)
    /\ bcast' = DeliverOne(bcast, ok)
    /\ UNCHANGED <<users, user_data, broadcast_history, blog>>
    /\ UNCHANGED linkVars
    /\ UNCHANGED adminVars

BroadcastFinish_overwrite ==
    /\ bcast.pc = "sending"
    /\ bcast.i > Len(bcast.list)
    /\ broadcast_history' =
           <<[admin_id |-> bcast.from_user, date |-> now,
              total_users |-> bcast.total_users,
              successful |-> bcast.successful, failed |-> bcast.failed]>>
    /\ blog' =
           <<[list |-> [k \in 1..Len(bcast.list) |-> bcast.list[k].user_id],
              message_to_broadcast |-> bcast.message_to_broadcast,
              attempts |-> bcast.attempts, copies |-> bcast.copies]>>
    /\ bcast' = IdleBroadcast
    /\ UNCHANGED <<users, user_data>>
    /\ UNCHANGED linkVars
    /\ UNCHANGED adminVars

\* broadcast_collection.insert_one and the report
BroadcastFinish ==
    /\ bcast.pc = "sending"
    /\ bcast.i > Len(bcast.list)
    /\ broadcast_history' = Append(broadcast_history,
           [admin_id |-> bcast.from_user, date |-> now,
            total_users |-> bcast.total_users,
            successful |-> bcast.successful, failed |-> bcast.failed])
    /\ blog' = Append(blog,
           [list |-> [k \in 1..Len(bcast.list) |-> bcast.list[k].user_id],
            message_to_broadcast |-> bcast.message_to_broadcast,
            attempts |-> bcast.attempts, copies |-> bcast.copies])
    /\ bcast' = IdleBroadcast
    /\ UNCHANGED <<users, user_data>>
    /\ UNCHANGED linkVars
    /\ UNCHANGED adminVars

(***************************************************************************)
(* Spec: the link store, from the empty store, under concurrent handlers   *)
(***************************************************************************)
OneGroup == <<[group_id |-> IdAt, is_public |-> TRUE, group_link |-> <<TME, "", "grp">>]>>

IdleGate == [pc |-> "out", ans |-> [c \in Chats |-> "member"], dbFail |-> FALSE,
             out |-> NoOutcome]

ValidLinkArgs == {a \in LinkArgs : StartsWithTme(a)}

CoreLinkArgs == {<<TME, "grp">>, <<>>}

Init ==
    /\ links = << >>
    /\ users = << >>
    /\ forced_groups = OneGroup
    /\ SUPPORT_CHANNELS = <<>>
    /\ now = 0
    /\ req = [i \in Slots |-> Idle]
    /\ lastOut = Unobserved
    /\ gate = IdleGate
    /\ gatePassed = {}
    /\ hist = << >>
    /\ ops = 0
    /\ NoBroadcast
    /\ NoAdmin

Next ==
    \/ \E i \in Slots, token \in TokenPool : WebLookup(i, token) /\ UNCHANGED ops
    \/ \E i \in Slots : WebIncrement(i) /\ UNCHANGED ops
    \/ \E u \in Users, arg \in CoreLinkArgs, t \in TokenPool, ans \in HandlerAnswers,
          dbFail \in BOOLEAN : protect_command(u, arg, t, ans, dbFail) /\ UNCHANGED ops
    \/ \E i \in Slots, u \in Users, arg \in RevokeArgs, ans \in HandlerAnswers,
          dbFail \in BOOLEAN :
             revoke_command_lookup(i, u, arg, ans, dbFail) /\ UNCHANGED ops
    \/ \E i \in Slots, u \in Users, t \in TokenPool :
          handle_revoke_link_lookup(i, u, t) /\ UNCHANGED ops
    \/ \E i \in Slots : RevokeUpdate(i) /\ UNCHANGED ops

Spec == Init /\ [][Next]_vars

(***************************************************************************)
(* SpecReply: MaxOps handlers, one after the other, on every bounded store *)
(* the program can have built; the reply of each is recorded in lastOut    *)
(***************************************************************************)
LinkDocs(t) ==
    {[NewLink(t, url, u, 0) EXCEPT !.active = a,
                                   !.revoked_at = IF a THEN <<>> ELSE <<0>>] :
        url \in ValidLinkArgs, u \in Users, a \in BOOLEAN}

StoreConfigs ==
    UNION {{f \in [D -> UNION {LinkDocs(t) : t \in D}] : \A t \in D : f[t]._id = t} :
            D \in {E \in SUBSET TokenPool : Cardinality(E) <= MaxLinks}}

InitReply ==
    /\ links \in StoreConfigs
    /\ users = << >>
    /\ forced_groups = OneGroup
    /\ SUPPORT_CHANNELS = <<>>
    /\ now = 0
    /\ req = [i \in Slots |-> Idle]
    /\ lastOut = NoOut
    /\ gate = IdleGate
    /\ gatePassed = {}
    /\ hist = [t \in DOMAIN links |->
                  [calls |-> 0, urls |-> 0,
                   revoked_ok |-> IF links[t].active THEN 0 ELSE 1]]
    /\ ops = 0
    /\ NoBroadcast
    /\ NoAdmin

\* a handler starts, within the bound on the number of handlers
Begin == ops < MaxOps /\ ops' = ops + 1

NextReply ==
    \/ \E token \in TokenPool : Begin /\ WebLookup(1, token)
    \/ \E u \in Users, arg \in LinkArgs, t \in TokenPool, ans \in HandlerAnswers,
          dbFail \in BOOLEAN : Begin /\ protect_command(u, arg, t, ans, dbFail)
    \/ \E u \in Users, arg \in RevokeArgs, ans \in HandlerAnswers,
          dbFail \in BOOLEAN : Begin /\ revoke_command_lookup(1, u, arg, ans, dbFail)
    \/ \E u \in Users, t \in TokenPool : Begin /\ handle_revoke_link_lookup(1, u, t)
    \/ \E u \in Users, t \in TokenPool, ans \in HandlerAnswers,
          dbFail \in BOOLEAN : Begin /\ start_begin(1, u, t, ans, dbFail)
    \/ \E u \in Users, t \in TokenPool, ans \in HandlerAnswers,
          dbFail \in BOOLEAN : Begin /\ check_join_begin(1, u, t, ans, dbFail)
    \/ \E t \in TokenPool : Begin /\ join_page(t)
    \/ \E u \in Users, ans \in HandlerAnswers, dbFail \in BOOLEAN :
          Begin /\ revoke_command_listing(u, ans, dbFail)
    \/ \E u \in Users : Begin /\ stats_command(u)
    \/ WebIncrement(1) /\ UNCHANGED ops
    \/ RevokeUpdate(1) /\ UNCHANGED ops
    \/ DeepLookup(1) /\ UNCHANGED ops

SpecReply == InitReply /\ [][NextReply]_vars

(***************************************************************************)
(* Properties of the link store                                            *)
(***************************************************************************)
RedemptionOps == {"get_group_link", "start", "check_join"}
RevokeOps == {"revoke_command", "handle_revoke_link"}

\* C1: get_group_link returns the url of a token only after a deep-link flow
\* (start or check_join_<token>) passed the membership gate for that token.
C1_UrlReleasedOnlyAfterGate ==
    (lastOut.op = "get_group_link" /\ lastOut.reply = "200") =>
        lastOut.arg \in gatePassed

\* C2: for an active (never revoked) link, the stored clicks equals the
\* number of completed get_group_link calls made for its token since it was
\* created, in every interleaving of the lookups and increments.
C2_NoLostClicks ==
    \A t \in DOMAIN links : links[t].active => links[t].clicks = hist[t].calls

C2_Witness ==
    \E t \in DOMAIN links :
        /\ links[t].active
        /\ hist[t].calls = MaxWeb
        /\ links[t].clicks = MaxWeb

\* C3: of the concurrent revoke attempts on one link, exactly one reports
\* "Link Revoked".
C3_ExactlyOneRevokeSucceeds ==
    \A t \in DOMAIN hist : hist[t].revoked_ok <= 1

\* C4: no step sets active back to true once it is false, and a redemption
\* attempt (get_group_link, start, check_join_<token>) on a revoked link
\* reports not found / revoked and returns no url.
C4_RevocationFinal ==
    /\ [][\A t \in DOMAIN links :
              ~links[t].active => (t \in DOMAIN links' /\ ~links'[t].active)]_vars
    /\ []((lastOut.op \in RedemptionOps /\ lastOut.saw = "revoked") =>
              (lastOut.url = <<>> /\ lastOut.reply \in {"404", "expired_or_revoked"}))

C4_Witness ==
    /\ ops = MaxOps
    /\ lastOut.op = "get_group_link"
    /\ lastOut.saw = "revoked"
    /\ lastOut.reply = "404"
    /\ ~links[lastOut.arg].active

NotFoundReply(op) ==
    IF op = "revoke_command" THEN "link_not_found" ELSE "not_found_or_revoked"

\* C5: on both revoke paths, revoking an active link of another user gives
\* the reply that revoking a nonexistent token gives.
C5_ForeignLinkLooksNonexistent ==
    (lastOut.op \in RevokeOps /\ lastOut.saw = "foreign_active") =>
        lastOut.reply = NotFoundReply(lastOut.op)

\* C6: a link's active flag goes from true to false only in the update of a
\* revoke handler run by the link's creator, and a step of a revoke handler
\* of another user changes no link of which that user is not the creator.
C6_CreatorOnlyRevocation ==
    [][/\ \A t \in DOMAIN links :
              (links[t].active /\ ~links'[t].active) =>
                  \E i \in Slots :
                      /\ req[i].op \in RevokeOps
                      /\ req'[i] = Idle
                      /\ req[i].user = links[t].created_by
                      /\ req[i].link_data[1]._id = t
       /\ \A i \in Slots :
              (req[i].op \in RevokeOps /\ req'[i] = Idle) =>
                  \A t \in DOMAIN links :
                      links[t].created_by # req[i].user => links'[t] = links[t]]_vars

C6_Witness ==
    \E t \in DOMAIN links, o \in DOMAIN links :
        /\ ~links[t].active
        /\ hist[t].revoked_ok = 1
        /\ links[o].active
        /\ links[o].created_by # links[t].created_by

\* C7: redeeming a token that was never issued and redeeming a revoked one
\* give the same outcome (404 from get_group_link, the same message from
\* start and check_join_<token>) and leave the links unchanged.
C7_UnknownAndRevokedAlike ==
    /\ []((lastOut.op = "get_group_link" /\ lastOut.saw \in {"unknown", "revoked"}) =>
              (lastOut.reply = "404" /\ lastOut.url = <<>>))
    /\ []((lastOut.op \in {"start", "check_join"}
              /\ lastOut.saw \in {"unknown", "revoked"}) =>
              lastOut.reply = "expired_or_revoked")
    /\ [][(lastOut'.op \in RedemptionOps /\ lastOut'.saw \in {"unknown", "revoked"}) =>
              (links' = links /\ forced_groups' = forced_groups)]_vars

C7_Witness ==
    /\ lastOut.op = "start"
    /\ lastOut.saw = "unknown"
    /\ lastOut.reply = "expired_or_revoked"
    /\ \E t \in DOMAIN links : ~links[t].active


\* C15: the step that completes a successful get_group_link returns the
\* telegram_link stored for the token and adds exactly 1 to that link's
\* clicks, changing no other field, no other link and no other collection;
\* telegram_link is never rewritten; a 404 changes nothing in the store.
C15_RedemptionEffect ==
    [][/\ \A i \in Slots :
              (req[i].op = "get_group_link" /\ req'[i] = Idle) =>
                  /\ req[i].arg \in DOMAIN links
                  /\ req[i].link_data[1].telegram_link = links[req[i].arg].telegram_link
                  /\ links' = [links EXCEPT ![req[i].arg].clicks = @ + 1]
                  /\ users' = users
                  /\ forced_groups' = forced_groups
       /\ \A t \in DOMAIN links :
              t \in DOMAIN links' /\ links'[t].telegram_link = links[t].telegram_link
       /\ (req' = req /\ \E t \in DOMAIN hist : hist'[t].calls = hist[t].calls + 1) =>
              (links' = links /\ users' = users /\ forced_groups' = forced_groups)]_vars

C15_Witness ==
    \E t \in DOMAIN links, o \in DOMAIN links :
        /\ t # o
        /\ links[t].clicks = 1
        /\ hist[t].urls = 1
        /\ links[o].clicks = 0
        /\ ~links[o].active
        /\ hist[o].calls >= 1

\* a deep-link flow or the /join page takes a step
PreviewStep ==
    \/ req[1].op \in {"start", "check_join"} /\ req'[1] = Idle
    \/ req[1] = Idle /\ req'[1].op \in {"start", "check_join"}
    \/ /\ ops' = ops + 1
       /\ req' = req
       /\ lastOut'.op \in {"start", "check_join", "join_page"}

\* C16: the start deep-link flow, the check_join_<token> callback and the
\* /join page leave every link unchanged, and clicks of every link equals
\* the number of get_group_link calls that returned its url.
C16_PreviewsDoNotCount ==
    /\ [](\A t \in DOMAIN links : links[t].clicks = hist[t].urls)
    /\ [][PreviewStep => links' = links]_vars

C16_Witness ==
    /\ lastOut.op = "get_group_link"
    /\ lastOut.reply = "200"
    /\ lastOut.arg \in gatePassed
    /\ links[lastOut.arg].clicks = 1
    /\ hist[lastOut.arg].urls = 1

\* C17: /revoke <identifier> by the owner of an active link, the gate
\* passing, replies "Link Revoked" when the identifier is the link's short_id
\* and when it is the link's full token as issued.
C17_OwnerRevokesByEitherIdentifier ==
    (lastOut.op = "revoke_command" /\ lastOut.saw = "own_active") =>
        lastOut.reply = "link_revoked"

\* a /protect handler runs (it is one step)
ProtectStep == ops' = ops + 1 /\ req' = req /\ lastOut'.op = "protect"

\* C18: /protect with an argument starting with https://t.me/ and a passing
\* gate inserts exactly one new link, with active = true, clicks = 0,
\* created_by the caller and telegram_link the argument, and changes nothing
\* else; with a missing or non-matching argument it changes nothing.
C18_LinkCreation ==
    [][ProtectStep =>
          /\ lastOut'.reply = "created" =>
                /\ StartsWithTme(lastOut'.arg)
                /\ \E t \in DOMAIN links' \ DOMAIN links :
                      /\ DOMAIN links' = DOMAIN links \cup {t}
                      /\ links'[t]._id = t
                      /\ links'[t].active
                      /\ links'[t].clicks = 0
                      /\ links'[t].created_by = lastOut'.user
                      /\ links'[t].telegram_link = lastOut'.arg
                /\ \A s \in DOMAIN links : links'[s] = links[s]
          /\ lastOut'.reply # "created" => links' = links
          /\ ~StartsWithTme(lastOut'.arg) => lastOut'.reply # "created"
          /\ (StartsWithTme(lastOut'.arg)
                 /\ lastOut'.reply \notin {"join_required", "exception"}) =>
                lastOut'.reply = "created"
          /\ users' = users
          /\ forced_groups' = forced_groups]_vars

C18_Witness ==
    /\ lastOut.op = "protect"
    /\ lastOut.reply = "created"
    /\ Cardinality(DOMAIN links) = MaxLinks
    /\ \E t \in DOMAIN links :
          /\ links[t].telegram_link = lastOut.arg
          /\ links[t].created_by = lastOut.user
          /\ links[t].clicks = 0
          /\ links[t].active
          /\ hist[t] = [calls |-> 0, urls |-> 0, revoked_ok |-> 0]

\* C19: after a command or callback of user U has been handled, the users
\* collection has a record for U whose last_active is the time of that
\* interaction.
C19_RegistryUpsertedOnEveryInteraction ==
    (lastOut.op \in {"start", "protect", "revoke_command", "revoke_listing",
                     "handle_revoke_link", "check_join"}) =>
        /\ lastOut.user \in DOMAIN users
        /\ users[lastOut.user].last_active = now

\* C20: clicks of every link is >= 0, no link is removed, and no step
\* (creation, redemption, revocation, listing, statistics) lowers clicks.
C20_ClicksMonotonic ==
    /\ [](\A t \in DOMAIN links : links[t].clicks >= 0)
    /\ [][\A t \in DOMAIN links :
              t \in DOMAIN links' /\ links'[t].clicks >= links[t].clicks]_vars

C20_Witness ==
    /\ lastOut.op \in RevokeOps
    /\ lastOut.reply = "link_revoked"
    /\ ~links[lastOut.link_data[1]._id].active
    /\ links[lastOut.link_data[1]._id].clicks = 1

\* C21: once a link record exists, its _id, short_id, telegram_link and
\* created_by never change and the record is never removed; revocation only
\* sets active to false.
C21_LinkIdentityImmutable ==
    [][\A t \in DOMAIN links :
          /\ t \in DOMAIN links'
          /\ links'[t]._id = links[t]._id
          /\ links'[t].short_id = links[t].short_id
          /\ links'[t].telegram_link = links[t].telegram_link
          /\ links'[t].created_by = links[t].created_by]_vars

C21_Witness ==
    /\ Cardinality(DOMAIN links) = MaxLinks
    /\ \E t \in DOMAIN links :
          /\ ~links[t].active
          /\ links[t].revoked_at # <<>>
          /\ links[t].clicks >= 1
          /\ hist[t].revoked_ok >= 1

\* C22: every record is stored under its own token, a step adds at most one
\* record and only under a token not yet in the store, and a /protect (a
\* step that completes no web or revoke handler) leaves every existing
\* record as it was: a creation never overwrites a link.
C22_TokenUniqueness ==
    /\ [](\A t \in DOMAIN links : links[t]._id = t)
    /\ [][/\ Cardinality(DOMAIN links') <= Cardinality(DOMAIN links) + 1
          /\ \A t \in DOMAIN links' \ DOMAIN links :
                 /\ links'[t].active
                 /\ links'[t].clicks = 0
          /\ req' = req =>
                 \A t \in DOMAIN links : t \in DOMAIN links' /\ links'[t] = links[t]]_vars

C22_Witness ==
    /\ Cardinality(DOMAIN links) = MaxLinks
    /\ \E t \in DOMAIN links, o \in DOMAIN links :
          /\ t # o
          /\ links[t].created_by # links[o].created_by
          /\ links[t].short_id = links[o].short_id
          /\ links[t].clicks >= 1
          /\ links[o].active

\* C29: once active is false, clicks of the link never changes again, also
\* when a get_group_link call that found the link active is interleaved
\* with a revoke of the token.
C29_NoClickOnRevokedLink ==
    [][\A t \in DOMAIN links :
          ~links[t].active => links'[t].clicks = links[t].clicks]_vars

(***************************************************************************)
(* SpecGate: one evaluation of the gate on every bounded configuration     *)
(***************************************************************************)
EmptyStore ==
    /\ links = << >>
    /\ users = << >>
    /\ now = 0
    /\ req = << >>
    /\ lastOut = NoOut
    /\ gatePassed = {}
    /\ hist = << >>
    /\ ops = 0
    /\ NoBroadcast
    /\ NoAdmin

InitGate ==
    /\ EmptyStore
    /\ forced_groups \in ForcedGroupConfigs
    /\ SUPPORT_CHANNELS \in SupportConfigs
    /\ \E ans \in AnswerFns, dbFail \in BOOLEAN :
          gate = [pc |-> "in", ans |-> ans, dbFail |-> dbFail, out |-> NoOutcome]

GateEvaluate_writes ==
    /\ gate.pc = "in"
    /\ gate' = [gate EXCEPT !.pc = "out",
                            !.out = check_channel_membership(gate.ans, gate.dbFail)]
    /\ users' = UpsertUser(users, 1, now)
    /\ UNCHANGED <<links, forced_groups, SUPPORT_CHANNELS, now, req, lastOut,
                   gatePassed, hist, ops>>
    /\ UNCHANGED broadcastVars
    /\ UNCHANGED adminVars

GateEvaluate ==
    /\ gate.pc = "in"
    /\ gate' = [gate EXCEPT !.pc = "out",
                            !.out = check_channel_membership(gate.ans, gate.dbFail)]
    /\ UNCHANGED <<links, users, forced_groups, SUPPORT_CHANNELS, now, req, lastOut,
                   gatePassed, hist, ops>>
    /\ UNCHANGED broadcastVars
    /\ UNCHANGED adminVars

NextGate == GateEvaluate

SpecGate == InitGate /\ [][NextGate]_vars

GateEvaluated == gate.pc = "out" /\ ~gate.dbFail

MemberOf(channel_info) == gate.ans[ChatIdOf(channel_info.id)] \in GoodStatus

\* C8 (as stated): with a non-empty list of required channels, the gate
\* returns true iff the membership query reports the user a member of every
\* one of them, public or private.
C8_GateIffMemberOfEveryChannel ==
    (GateEvaluated /\ Len(get_required_channels) > 0) =>
        (gate.out.result <=>
            \A i \in 1..Len(get_required_channels) : MemberOf(get_required_channels[i]))

\* C8 (amended): with a non-empty list of required channels, the gate returns
\* true iff the membership query reports the user a member of every channel
\* with is_public = true; channels with is_public = false are skipped, and a
\* single public channel answering "not a member" or "error" makes it false.
C8_GateIffMemberOfEveryPublicChannel ==
    (GateEvaluated /\ Len(get_required_channels) > 0) =>
        /\ ~gate.out.raised
        /\ gate.out.result <=>
              \A i \in 1..Len(get_required_channels) :
                  get_required_channels[i].is_public => MemberOf(get_required_channels[i])

C8_Witness ==
    /\ GateEvaluated
    /\ Len(get_required_channels) >= 2
    /\ gate.out.result
    /\ \E i, j \in 1..Len(get_required_channels) :
          /\ get_required_channels[i].is_public
          /\ ~get_required_channels[j].is_public
          /\ ~MemberOf(get_required_channels[j])

\* C9: if get_chat_member raises for a channel the gate queries, the gate
\* returns false: not true, and no exception.
C9_FailClosedOnQueryError ==
    (gate.pc = "out" /\ \E k \in 1..Len(gate.out.queried) :
                            gate.ans[gate.out.queried[k]] = "error") =>
        (~gate.out.result /\ ~gate.out.raised)

C9_Witness ==
    /\ gate.pc = "out"
    /\ Len(gate.out.queried) >= 2
    /\ gate.ans[gate.out.queried[1]] \in GoodStatus
    /\ gate.ans[gate.out.queried[2]] = "error"
    /\ ~gate.out.result

\* C10: a storage failure while the gate reads the required-channel list is
\* caught inside check_channel_membership and yields false, never an
\* exception in the calling handler.
C10_StorageFailureYieldsFalse ==
    (gate.pc = "out" /\ gate.dbFail) => (~gate.out.raised /\ ~gate.out.result)

\* C11: with no required channel configured (no SUPPORT_CHANNELS entry, no
\* forced group) the gate returns true for every user, whatever
\* get_chat_member would answer, and issues no membership query.
C11_EmptyChannelListPasses ==
    (GateEvaluated /\ SUPPORT_CHANNELS = <<>> /\ forced_groups = <<>>) =>
        (gate.out.result /\ ~gate.out.raised /\ gate.out.queried = <<>>)

C11_Witness ==
    /\ GateEvaluated
    /\ SUPPORT_CHANNELS = <<>>
    /\ forced_groups = <<>>
    /\ gate.out.result
    /\ \A c \in Chats : gate.ans[c] = "error"

(***************************************************************************)
(* SpecBroadcast: the user registry and the broadcast dispatcher           *)
(***************************************************************************)
InitBroadcast ==
    /\ EmptyStore
    /\ forced_groups = <<>>
    /\ SUPPORT_CHANNELS = <<>>
    /\ gate = IdleGate

NextBroadcast ==
    \/ \E u \in Recipients, private \in BOOLEAN : store_message(u, private)
    \/ \E u \in Users, has_reply \in BOOLEAN : broadcast_command(u, has_reply)
    \/ \E u \in Users : confirm_broadcast(u)
    \/ \E u \in Users : cancel_broadcast(u)
    \/ \E ok \in BOOLEAN : BroadcastDeliver(ok)
    \/ BroadcastFinish

SpecBroadcast == InitBroadcast /\ [][NextBroadcast]_vars

\* the event loop resumes the handler after every await
SpecBroadcastLive ==
    /\ SpecBroadcast
    /\ WF_vars(\E ok \in BOOLEAN : BroadcastDeliver(ok))
    /\ WF_vars(BroadcastFinish)

Tos(attempts) == [k \in 1..Len(attempts) |-> attempts[k].to]

\* C12: every finished broadcast made one loop iteration for every user of
\* the list, in list order and none twice, whatever deliveries failed; with a
\* message pending, one copy call per user; and the stored record has
\* successful + failed = total_users.  A broadcast in progress has tried
\* exactly the users before its position.
C12_BroadcastFaultIsolation ==
    /\ \A k \in 1..Len(broadcast_history) :
          /\ broadcast_history[k].successful + broadcast_history[k].failed
                 = broadcast_history[k].total_users
          /\ broadcast_history[k].total_users = Len(blog[k].list)
          /\ Tos(blog[k].attempts) = blog[k].list
          /\ NoRepeat(blog[k].list)
          /\ blog[k].message_to_broadcast # <<>> => blog[k].copies = blog[k].list
          /\ broadcast_history[k].failed =
                 Cardinality({j \in 1..Len(blog[k].attempts) : ~blog[k].attempts[j].ok})
    /\ bcast.pc = "sending" =>
          /\ Tos(bcast.attempts) =
                 [k \in 1..(bcast.i - 1) |-> bcast.list[k].user_id]
          /\ bcast.successful + bcast.failed = bcast.i - 1

C12_Witness ==
    \E k \in 1..Len(broadcast_history) :
        /\ broadcast_history[k].total_users = MaxRecipients
        /\ blog[k].message_to_broadcast # <<>>
        /\ ~blog[k].attempts[1].ok
        /\ blog[k].attempts[2].ok
        /\ ~blog[k].attempts[MaxRecipients].ok

\* C13: a broadcast_history record, and the iteration that leads to it,
\* exist only for a confirmation sent by the administrator while a message
\* proposed by /broadcast is pending.
C13_BroadcastOnlyByAdminAfterProposal ==
    /\ \A k \in 1..Len(broadcast_history) :
          /\ broadcast_history[k].admin_id = ADMIN_ID
          /\ blog[k].message_to_broadcast # <<>>
    /\ \A k \in 1..Len(blog) :
          blog[k].copies # <<>> => broadcast_history[k].admin_id = ADMIN_ID

\* C14: a confirmed broadcast finishes, and the step that ends it is the
\* insertion of exactly one record with the final total_users, successful
\* and failed; records are inserted by no other step.
C14_BroadcastCompletes ==
    /\ (bcast.pc = "sending") ~> (bcast.pc = "idle")
    /\ [][(bcast.pc = "sending" /\ bcast'.pc # "sending") =>
              /\ bcast'.pc = "idle"
              /\ bcast.i = Len(bcast.list) + 1
              /\ broadcast_history' = Append(broadcast_history,
                     [admin_id |-> bcast.from_user, date |-> now,
                      total_users |-> Len(bcast.list),
                      successful |-> bcast.successful, failed |-> bcast.failed])]_vars
    /\ [][broadcast_history' # broadcast_history =>
              (bcast.pc = "sending" /\ bcast'.pc = "idle")]_vars

C14_Witness ==
    /\ Len(broadcast_history) = MaxBroadcasts
    /\ bcast.pc = "idle"
    /\ \E k \in 1..Len(broadcast_history) :
          /\ broadcast_history[k].total_users >= 2
          /\ broadcast_history[k].failed = broadcast_history[k].total_users
          /\ blog[k].message_to_broadcast # <<>>

\* C24: a broadcast_history record is never modified or removed, and the
\* collection grows by exactly one record in the step that completes a
\* broadcast, and in no other step.
C24_BroadcastRecordAppendOnly ==
    [][/\ Len(broadcast_history') >= Len(broadcast_history)
       /\ \A k \in 1..Len(broadcast_history) :
              broadcast_history'[k] = broadcast_history[k]
       /\ (bcast.pc = "sending" /\ bcast'.pc = "idle") <=>
              Len(broadcast_history') = Len(broadcast_history) + 1
       /\ Len(broadcast_history') <= Len(broadcast_history) + 1]_vars

C24_Witness ==
    /\ Len(broadcast_history) = MaxBroadcasts
    /\ broadcast_history[1] # broadcast_history[MaxBroadcasts]
    /\ broadcast_history[1].successful >= 1

IsPublicChannel(channel_info) == channel_info.is_public

PublicChannels == SelectSeq(get_required_channels, IsPublicChannel)

\* C26: an evaluation of the gate, whatever its result, leaves links, users,
\* broadcast_history, forced_groups and forced_links unchanged.
C26_GateReadOnly ==
    [][(gate.pc = "in" /\ gate'.pc = "out") =>
          /\ links' = links
          /\ users' = users
          /\ broadcast_history' = broadcast_history
          /\ forced_groups' = forced_groups
          /\ forced_links' = forced_links]_vars

C26_Witness ==
    /\ gate.pc = "out"
    /\ ~gate.out.result
    /\ Len(gate.out.queried) >= 2
    /\ Len(forced_groups) = MaxForced

C35_PassIffGoodStanding ==
    GateEvaluated =>
        \A k \in 1..Len(gate.out.queried) :
            LET a == gate.ans[gate.out.queried[k]]
            IN  /\ a \in GoodStatus =>
                      \/ k < Len(gate.out.queried)
                      \/ (k = Len(PublicChannels) /\ gate.out.result)
                /\ a \in MemberStatus \ GoodStatus =>
                      /\ k = Len(gate.out.queried)
                      /\ ~gate.out.result
                      /\ ~gate.out.raised

C35_Witness ==
    /\ GateEvaluated
    /\ Len(PublicChannels) >= 2
    /\ Len(gate.out.queried) = 1
    /\ gate.ans[gate.out.queried[1]] = "restricted"
    /\ gate.ans[ChatIdOf(PublicChannels[2].id)] = "member"
    /\ ~gate.out.result

(***************************************************************************)
(* SpecAdmin: the required-channel configuration (forced_groups and        *)
(* forced_links), the admin commands and the inline-button callbacks.      *)
(* A url is <<"https://t.me/", marker, last path part>>, the marker being  *)
(* "+" (invite hash), "c/" (numeric channel link), "@" or "" (username).   *)
(***************************************************************************)
AdminUrls == {<<TME, "+", "inv">>, <<TME, "c/", "7">>, <<TME, "", "grp">>,
              <<"http://evil/", "", "x">>}

\* a command runs in the sender's private chat with the bot or in a group
AdminChats == {"private", "group"}

\* forcegroup_command: group_id and is_public of an invite link
ParseGroupLink(group_identifier) ==
    IF group_identifier[2] = "+"
    THEN [group_id |-> [kind |-> "plus", name |-> "+" \o group_identifier[3]],
          is_public |-> FALSE, group_link |-> group_identifier]
    ELSE IF group_identifier[2] = "c/"
    THEN [group_id |-> [kind |-> "num", name |-> group_identifier[3]],
          is_public |-> FALSE, group_link |-> group_identifier]
    ELSE [group_id |-> [kind |-> "at", name |-> group_identifier[3]],
          is_public |-> TRUE, group_link |-> group_identifier]

\* channel identifiers typed after /force and /remove: a raw id or a url
RawIdent(id) == [form |-> "raw", id |-> id, url |-> <<>>]
UrlIdent(url) == [form |-> "url", id |-> [kind |-> "none", name |-> ""], url |-> url]

ChannelIdents == {RawIdent(IdAt), RawIdent(IdNum), UrlIdent(<<TME, "c/", "7">>),
                  UrlIdent(<<TME, "", "grp">>)}

\* force_command: channel_id of a channel identifier
ForceChannelId(channel_identifier) ==
    IF channel_identifier.form = "raw" THEN channel_identifier.id
    ELSE IF channel_identifier.url[2] = "c/"
    THEN [kind |-> "num", name |-> channel_identifier.url[3]]
    ELSE IF channel_identifier.url[2] = "+"
    THEN [kind |-> "plus", name |-> "+" \o channel_identifier.url[3]]
    ELSE [kind |-> "at", name |-> channel_identifier.url[3]]

\* indexes of the documents of a collection that satisfy a filter
Matching(coll, field, value) == {k \in 1..Len(coll) : coll[k][field] = value}

First(S) == CHOOSE k \in S : \A j \in S : k <= j

\* delete_one: removes the first of the documents that match
DeleteOne(coll, hit) ==
    IF hit = {} THEN coll
    ELSE SubSeq(coll, 1, First(hit) - 1) \o SubSeq(coll, First(hit) + 1, Len(coll))

\* callback_data is a text: fixed segments followed by an identifier
CallbackData(segs, id) == [segs |-> segs, id |-> id]

NoId == [kind |-> "none", name |-> ""]

\* query.data.startswith(prefix)
DataStartsWith(data, prefix) ==
    /\ Len(data.segs) >= Len(prefix)
    /\ SubSeq(data.segs, 1, Len(prefix)) = prefix

\* query.data.replace(segment, "")
RECURSIVE WithoutSegment(_, _)
WithoutSegment(segs, segment) ==
    IF segs = <<>> THEN <<>>
    ELSE IF Head(segs) = segment THEN WithoutSegment(Tail(segs), segment)
    ELSE <<Head(segs)>> \o WithoutSegment(Tail(segs), segment)

DataReplace(data, segment) == [data EXCEPT !.segs = WithoutSegment(data.segs, segment)]

Button(data, chat, user_id) == [data |-> data, chat |-> chat, shown_to |-> user_id]

AdminOut(op, user_id, reply) == Out(op, user_id, <<>>, reply, <<>>, "none", <<>>)

\* number of admin commands and button presses explored
MaxAdminOps == 3

AdminFrame ==
    /\ ops < MaxAdminOps
    /\ ops' = ops + 1
    /\ UNCHANGED <<links, users, SUPPORT_CHANNELS, now, req, gate, gatePassed, hist>>
    /\ UNCHANGED broadcastVars
    /\ UNCHANGED <<channels_collection, invite>>

\* /forcegroup [link]
forcegroup_command(user_id, args, chat) ==
    /\ AdminFrame
    /\ UNCHANGED forced_links
    /\ IF user_id # ADMIN_ID
       THEN /\ lastOut' = AdminOut("forcegroup", user_id, "admin_required")
            /\ UNCHANGED <<forced_groups, keyboards>>
       ELSE IF args = <<>>
       THEN /\ lastOut' = AdminOut("forcegroup", user_id,
                                   IF forced_groups = <<>> THEN "no_forced_groups"
                                   ELSE "forced_groups_list")
            /\ keyboards' = keyboards \cup
                  {Button(CallbackData(<<"remove_forced_", "group_">>,
                                       forced_groups[k].group_id), chat, user_id) :
                      k \in 1..Len(forced_groups)}
            /\ UNCHANGED forced_groups
       ELSE IF ~StartsWithTme(args[1])
       THEN /\ lastOut' = AdminOut("forcegroup", user_id, "invalid_link")
            /\ UNCHANGED <<forced_groups, keyboards>>
       ELSE IF Matching(forced_groups, "group_id", ParseGroupLink(args[1]).group_id) # {}
       THEN /\ lastOut' = AdminOut("forcegroup", user_id, "already_exists")
            /\ UNCHANGED <<forced_groups, keyboards>>
       ELSE /\ Len(forced_groups) < MaxForced
            /\ forced_groups' = Append(forced_groups, ParseGroupLink(args[1]))
            /\ lastOut' = AdminOut("forcegroup", user_id, "forced_group_added")
            /\ UNCHANGED keyboards

\* /removeforcegroup <group_id>
removeforcegroup_command(user_id, group_identifier) ==
    /\ AdminFrame
    /\ UNCHANGED <<forced_links, keyboards>>
    /\ IF user_id # ADMIN_ID
       THEN /\ lastOut' = AdminOut("removeforcegroup", user_id, "admin_required")
            /\ UNCHANGED forced_groups
       ELSE /\ forced_groups' =
                  DeleteOne(forced_groups, Matching(forced_groups, "group_id", group_identifier))
            /\ lastOut' = AdminOut("removeforcegroup", user_id,
                  IF Matching(forced_groups, "group_id", group_identifier) # {}
                  THEN "forced_group_removed" ELSE "not_found")

\* /clearforcegroups: only asks for confirmation
clearforcegroups_command(user_id, chat) ==
    /\ AdminFrame
    /\ UNCHANGED <<forced_links, forced_groups>>
    /\ IF user_id # ADMIN_ID
       THEN /\ lastOut' = AdminOut("clearforcegroups", user_id, "admin_required")
            /\ UNCHANGED keyboards
       ELSE /\ lastOut' = AdminOut("clearforcegroups", user_id, "confirm_clear")
            /\ keyboards' = keyboards \cup
                  {Button(CallbackData(<<"clear_all_forced_groups">>, NoId), chat, user_id)}

\* /force <channel_identifier> <invite_link>
force_command(user_id, channel_identifier, custom_link) ==
    /\ AdminFrame
    /\ UNCHANGED <<forced_groups, keyboards>>
    /\ IF user_id # ADMIN_ID
       THEN /\ lastOut' = AdminOut("force", user_id, "admin_required")
            /\ UNCHANGED forced_links
       ELSE IF ~StartsWithTme(custom_link)
       THEN /\ lastOut' = AdminOut("force", user_id, "invalid_link")
            /\ UNCHANGED forced_links
       ELSE /\ lastOut' = AdminOut("force", user_id, "custom_link_set")
            /\ LET channel_id == ForceChannelId(channel_identifier)
                   doc == [channel_id |-> channel_id, forced_link |-> custom_link,
                           channel_identifier |-> channel_identifier]
                   hit == Matching(forced_links, "channel_id", channel_id)
               IN  forced_links' =
                      IF hit = {} THEN Append(forced_links, doc)
                      ELSE [forced_links EXCEPT ![First(hit)] = doc]

\* /remove [channel_identifier]
remove_command(user_id, args, chat) ==
    /\ AdminFrame
    /\ UNCHANGED forced_groups
    /\ IF user_id # ADMIN_ID
       THEN /\ lastOut' = AdminOut("remove", user_id, "admin_required")
            /\ UNCHANGED <<forced_links, keyboards>>
       ELSE IF args = <<>>
       THEN /\ lastOut' = AdminOut("remove", user_id,
                                   IF forced_links = <<>> THEN "no_custom_links"
                                   ELSE "custom_links_list")
            /\ keyboards' = keyboards \cup
                  {Button(CallbackData(<<"remove_forced_">>, forced_links[k].channel_id),
                          chat, user_id) : k \in 1..Len(forced_links)}
            /\ UNCHANGED forced_links
       ELSE /\ forced_links' =
                  DeleteOne(forced_links,
                            (IF args[1].form = "raw"
                             THEN Matching(forced_links, "channel_id", args[1].id)
                             ELSE {})
                            \cup Matching(forced_links, "channel_identifier", args[1]))
            /\ lastOut' = AdminOut("remove", user_id,
                  IF forced_links' # forced_links THEN "custom_link_removed"
                  ELSE "not_found")
            /\ UNCHANGED keyboards

\* /fixgrouplink <group_id> <new_invite_link>; the match on group_name is
\* not modelled, group names are not part of the documents here
fixgrouplink_command(user_id, group_identifier, new_link) ==
    /\ AdminFrame
    /\ UNCHANGED <<forced_links, keyboards>>
    /\ IF user_id # ADMIN_ID
       THEN /\ lastOut' = AdminOut("fixgrouplink", user_id, "admin_required")
            /\ UNCHANGED forced_groups
       ELSE IF ~StartsWithTme(new_link)
       THEN /\ lastOut' = AdminOut("fixgrouplink", user_id, "invalid_link")
            /\ UNCHANGED forced_groups
       ELSE LET hit == Matching(forced_groups, "group_id", group_identifier)
            IN  IF hit = {}
                THEN /\ lastOut' = AdminOut("fixgrouplink", user_id, "not_found")
                     /\ UNCHANGED forced_groups
                ELSE /\ lastOut' = AdminOut("fixgrouplink", user_id, "link_updated")
                     /\ forced_groups' =
                           [forced_groups EXCEPT ![First(hit)].group_link = new_link]

\* forced_links_collection.delete_one({"channel_id": channel_id})
handle_remove_forced(channel_id) ==
    DeleteOne(forced_links,
              IF channel_id.segs = <<>>
              THEN Matching(forced_links, "channel_id", channel_id.id) ELSE {})

\* forced_groups_collection.delete_one({"group_id": group_id})
handle_remove_forced_group(group_id) ==
    DeleteOne(forced_groups,
              IF group_id.segs = <<>>
              THEN Matching(forced_groups, "group_id", group_id.id) ELSE {})

\* forced_groups_collection.delete_many({})
handle_clear_all_forced_groups == << >>

\* the branches of button_callback that reach the configuration; a button
\* can be pressed by whoever sees the message that carries it
\* the reply to a button press, with the callback data that was pressed
ButtonOut(op, user_id, data, reply) == Out(op, user_id, data, reply, <<>>, "none", <<>>)

button_callback(user_id, button) ==
    /\ button \in keyboards
    /\ button.chat = "group" \/ user_id = button.shown_to
    /\ AdminFrame
    /\ UNCHANGED keyboards
    /\ IF DataStartsWith(button.data, <<"remove_forced_">>)
       THEN /\ forced_links' = handle_remove_forced(DataReplace(button.data, "remove_forced_"))
            /\ lastOut' = ButtonOut("remove_forced", user_id, button.data,
                  IF forced_links' # forced_links THEN "custom_link_removed"
                  ELSE "link_not_found")
            /\ UNCHANGED forced_groups
       ELSE IF DataStartsWith(button.data, <<"remove_forced_", "group_">>)
       THEN /\ forced_groups' =
                  handle_remove_forced_group(
                      DataReplace(DataReplace(button.data, "remove_forced_"), "group_"))
            /\ lastOut' = ButtonOut("remove_forced_group", user_id, button.data,
                  IF forced_groups' # forced_groups THEN "forced_group_removed"
                  ELSE "group_not_found")
            /\ UNCHANGED forced_links
       ELSE IF button.data.segs = <<"clear_all_forced_groups">>
       THEN /\ forced_groups' = handle_clear_all_forced_groups
            /\ lastOut' = ButtonOut("clear_all_forced_groups", user_id, button.data,
                  "all_cleared")
            /\ UNCHANGED forced_links
       ELSE /\ lastOut' = ButtonOut("button", user_id, button.data,
                  "none")
            /\ UNCHANGED <<forced_groups, forced_links>>

InitAdmin ==
    /\ EmptyStore
    /\ forced_groups = <<>>
    /\ SUPPORT_CHANNELS = <<>>
    /\ gate = IdleGate

NextAdmin ==
    \/ \E u \in Users, args \in {<<>>} \cup {<<l>> : l \in AdminUrls}, chat \in AdminChats :
          forcegroup_command(u, args, chat)
    \/ \E u \in Users, g \in {IdAt, IdNum, IdPlus} : removeforcegroup_command(u, g)
    \/ \E u \in Users, chat \in AdminChats : clearforcegroups_command(u, chat)
    \/ \E u \in Users, c \in ChannelIdents, l \in AdminUrls : force_command(u, c, l)
    \/ \E u \in Users, args \in {<<>>} \cup {<<c>> : c \in ChannelIdents}, chat \in AdminChats :
          remove_command(u, args, chat)
    \/ \E u \in Users, g \in {IdAt, IdNum, IdPlus}, l \in AdminUrls :
          fixgrouplink_command(u, g, l)
    \/ \E u \in Users, b \in keyboards : button_callback(u, b)

SpecAdmin == InitAdmin /\ [][NextAdmin]_vars

\* C23: a step that changes forced_groups or forced_links is made by the
\* administrator: the same command or button used by any other user leaves
\* both collections unchanged.
C23_ConfigChangedOnlyByAdmin ==
    [][(forced_groups' # forced_groups \/ forced_links' # forced_links) =>
          lastOut'.user = ADMIN_ID]_vars

(***************************************************************************)
(* SpecInvite: one call of get_group_invite_link on every bounded          *)
(* combination of stored links, cache age and Telegram outcomes.           *)
(***************************************************************************)
\* latest value of the clock, which counts days
MaxClock == 1

\* a numeric chat id that does not start with "-100"
IdNeg == [kind |-> "neg", name |-> "-5"]

InviteIds == {IdAt, IdBare, IdNum, IdPlus, IdNeg}

NoLink == << >>

StoredLink == <<TME, "+", "stored">>
ForcedLink == <<TME, "+", "forced">>
CachedLink == <<TME, "+", "cached">>
CreatedLink == <<TME, "+", "created">>
ExistingLink == <<TME, "+", "existing">>
UsernameLink == <<TME, "", "username">>
Placeholder == <<TME, "+", "PRIVATE_GROUP_NEEDS_INVITE_LINK">>

\* outcomes of the Telegram calls of one resolution: get_chat raises or
\* returns a chat with or without username; create_chat_invite_link returns
\* a link, raises BadRequest or raises another error; the second get_chat
\* raises or returns a chat with or without invite_link
TelegramOutcomes ==
    [get_chat : {"error", "username", "private"},
     create   : {"ok", "BadRequest", "error"},
     get_chat_again : {"error", "invite_link", "no_invite_link"}]

\* forced_links_collection.find_one({"channel_id": group_id})
ForcedLinkOf(group_id) ==
    IF Matching(forced_links, "channel_id", group_id) = {} THEN NoLink
    ELSE forced_links[First(Matching(forced_links, "channel_id", group_id))].forced_link

\* channels_collection.find_one: the cached link, when it is younger than a day
FreshCachedLinkOf(group_id) ==
    LET hit == Matching(channels_collection, "channel_id", group_id)
    IN  IF hit = {} THEN NoLink
        ELSE IF now - channels_collection[First(hit)].created_at < 1
        THEN channels_collection[First(hit)].invite_link
        ELSE NoLink

\* the fallback at the end of get_group_invite_link
RawIdUrl(group_id) ==
    IF group_id.kind = "num" THEN <<TME, "c/", group_id.name>>
    ELSE IF group_id.kind = "at" THEN <<TME, "", group_id.name>>
    ELSE <<TME, "", group_id.name>>

\* channels_collection.update_one(..., upsert=True)
CacheInviteLink(group_id, invite_url) ==
    LET hit == Matching(channels_collection, "channel_id", group_id)
        doc == [channel_id |-> group_id, invite_link |-> invite_url, created_at |-> now]
    IN  IF hit = {} THEN Append(channels_collection, doc)
        ELSE [channels_collection EXCEPT ![First(hit)] = doc]

Resolved(url) == [url |-> url, cache |-> channels_collection]

get_group_invite_link(group_info, tg) ==
    IF group_info.invite_link # NoLink THEN Resolved(group_info.invite_link)
    ELSE IF ForcedLinkOf(group_info.id) # NoLink THEN Resolved(ForcedLinkOf(group_info.id))
    ELSE IF FreshCachedLinkOf(group_info.id) # NoLink
    THEN Resolved(FreshCachedLinkOf(group_info.id))
    ELSE IF tg.get_chat = "error" THEN Resolved(RawIdUrl(group_info.id))
    ELSE IF tg.get_chat = "username" THEN Resolved(UsernameLink)
    ELSE IF tg.create = "ok"
    THEN [url |-> CreatedLink, cache |-> CacheInviteLink(group_info.id, CreatedLink)]
    ELSE IF tg.create = "BadRequest"
    THEN IF tg.get_chat_again = "invite_link" THEN Resolved(ExistingLink)
         ELSE Resolved(Placeholder)
    ELSE Resolved(RawIdUrl(group_info.id))

ForcedLinkConfigs ==
    {<< >>} \cup {<<[channel_id |-> c, forced_link |-> ForcedLink,
                     channel_identifier |-> RawIdent(c)]>> : c \in {IdAt, IdNum}}

CacheConfigs ==
    {<< >>} \cup {<<[channel_id |-> c, invite_link |-> CachedLink, created_at |-> 0]>> :
                     c \in {IdNum, IdPlus}}

InitInvite ==
    /\ links = << >>
    /\ users = << >>
    /\ forced_groups = << >>
    /\ SUPPORT_CHANNELS = << >>
    /\ now \in 0..MaxClock
    /\ req = << >>
    /\ lastOut = NoOut
    /\ gate = IdleGate
    /\ gatePassed = {}
    /\ hist = << >>
    /\ ops = 0
    /\ NoBroadcast
    /\ keyboards = {}
    /\ forced_links \in ForcedLinkConfigs
    /\ channels_collection \in CacheConfigs
    /\ \E id \in InviteIds, l \in {NoLink, StoredLink}, tg \in TelegramOutcomes :
          invite = [pc |-> "in", group_info |-> [id |-> id, invite_link |-> l],
                    tg |-> tg, url |-> NoLink]

InviteResolve ==
    /\ invite.pc = "in"
    /\ invite' = [invite EXCEPT !.pc = "out",
                     !.url = get_group_invite_link(invite.group_info, invite.tg).url]
    /\ channels_collection' = get_group_invite_link(invite.group_info, invite.tg).cache
    /\ UNCHANGED linkVars
    /\ UNCHANGED broadcastVars
    /\ UNCHANGED <<users, forced_links, keyboards>>

NextInvite == InviteResolve

SpecInvite == InitInvite /\ [][NextInvite]_vars

\* generation of an invite link fails: get_chat raises, or
\* create_chat_invite_link is rejected with BadRequest and the chat has no
\* invite link of its own
GenerationFails(tg) ==
    \/ tg.get_chat = "error"
    \/ /\ tg.get_chat = "private"
       /\ tg.create = "BadRequest"
       /\ tg.get_chat_again # "invite_link"

MaxListed == 13

TokenChars == <<"a", "b", "c", "d", "e", "f", "g", "h", "i", "l", "m", "n", "o", "p", "q">>

ListedToken(k) == Tok(TokenChars[k])

\* creation orders: oldest first, newest first, rotated
CreatedAtOrders(n) ==
    { [k \in 1..n |-> k], [k \in 1..n |-> n + 1 - k], [k \in 1..n |-> ((k + 2) % n) + 1] }

\* n links of user 1, all active, except that link `foreign` is of user 2
\* and link `revoked` is revoked (0 for none)
ListedStore(n, order, foreign, revoked) ==
    [t \in {ListedToken(k) : k \in 1..n} |->
        LET k == CHOOSE j \in 1..n : ListedToken(j) = t
        IN  [NewLink(t, <<TME, "grp">>, IF k = foreign THEN 2 ELSE 1, order[k])
                EXCEPT !.active = (k # revoked),
                       !.revoked_at = IF k = revoked THEN <<order[k]>> ELSE <<>>]]

ListedStores ==
    UNION {{ListedStore(n, order, foreign, revoked) :
               order \in CreatedAtOrders(n), foreign \in 0..n, revoked \in 0..n} :
           n \in {1, 2, MaxListed - 1, MaxListed}}

InitListing ==
    /\ links \in ListedStores
    /\ users = << >>
    /\ forced_groups = OneGroup
    /\ SUPPORT_CHANNELS = <<>>
    /\ now = 0
    /\ req = [i \in Slots |-> Idle]
    /\ lastOut = NoOut
    /\ gate = IdleGate
    /\ gatePassed = {}
    /\ hist = [t \in DOMAIN links |->
                  [calls |-> 0, urls |-> 0,
                   revoked_ok |-> IF links[t].active THEN 0 ELSE 1]]
    /\ ops = 0
    /\ NoBroadcast
    /\ NoAdmin

NextListing ==
    \E u \in Users, ans \in HandlerAnswers, dbFail \in BOOLEAN :
        revoke_command_listing(u, ans, dbFail) /\ UNCHANGED ops

SpecListing == InitListing /\ [][NextListing]_vars

Listed == lastOut.op = "revoke_listing" /\ lastOut.reply \in {"active_links", "no_active_links"}

\* C27: /revoke without arguments by user U lists only links created by U
\* that are active, as they are stored, at most 10, newest first, and they
\* are the newest of U's active links; it lists none only when U has none;
\* the listing changes no link.
C27_ListingOwnActiveNewestTen ==
    /\ [](Listed =>
            LET q == lastOut.link_data
                own == ActiveLinksOf(links, lastOut.user)
            IN  /\ \A k \in 1..Len(q) :
                      /\ q[k].created_by = lastOut.user
                      /\ q[k].active
                      /\ q[k]._id \in DOMAIN links
                      /\ links[q[k]._id] = q[k]
                /\ Len(q) <= ListLimit
                /\ Len(q) = Min(ListLimit, Cardinality(own))
                /\ \A j, k \in 1..Len(q) :
                      j < k => /\ q[j].created_at >= q[k].created_at
                               /\ q[j]._id # q[k]._id
                /\ \A t \in own :
                      (\A k \in 1..Len(q) : q[k]._id # t) =>
                          \A k \in 1..Len(q) : links[t].created_at <= q[k].created_at
                /\ (lastOut.reply = "no_active_links") <=> (own = {}))
    /\ [][lastOut'.op = "revoke_listing" => links' = links]_vars

C27_Witness ==
    /\ Listed
    /\ Len(lastOut.link_data) = ListLimit
    /\ Cardinality(ActiveLinksOf(links, lastOut.user)) > ListLimit
    /\ \E t \in DOMAIN links : links[t].created_by # lastOut.user
    /\ \E t \in DOMAIN links : links[t].created_by = lastOut.user /\ ~links[t].active
    /\ lastOut.link_data[1].created_at = MaxListed

(***************************************************************************)
(* SpecRevoke: both revoke paths, concurrently, on stores of active links, *)
(* while the clock advances.                                               *)
(***************************************************************************)
ActiveStores == {f \in StoreConfigs : f # << >> /\ \A t \in DOMAIN f : f[t].active}

InitRevoke ==
    /\ links \in ActiveStores
    /\ users = << >>
    /\ forced_groups = OneGroup
    /\ SUPPORT_CHANNELS = <<>>
    /\ now = 0
    /\ req = [i \in Slots |-> Idle]
    /\ lastOut = Unobserved
    /\ gate = IdleGate
    /\ gatePassed = {}
    /\ hist = [t \in DOMAIN links |-> [calls |-> 0, urls |-> 0, revoked_ok |-> 0]]
    /\ ops = 0
    /\ NoBroadcast
    /\ NoAdmin

\* datetime.datetime.now() advances
Tick ==
    /\ now < MaxClock
    /\ now' = now + 1
    /\ UNCHANGED <<links, users, forced_groups, SUPPORT_CHANNELS, req, lastOut, gate,
                   gatePassed, hist, ops>>
    /\ UNCHANGED broadcastVars
    /\ UNCHANGED adminVars

NextRevoke ==
    \/ \E i \in Slots, u \in Users, arg \in RevokeArgs, ans \in HandlerAnswers,
          dbFail \in BOOLEAN :
             revoke_command_lookup(i, u, arg, ans, dbFail) /\ UNCHANGED ops
    \/ \E i \in Slots, u \in Users, t \in TokenPool :
          handle_revoke_link_lookup(i, u, t) /\ UNCHANGED ops
    \/ \E i \in Slots : RevokeUpdate(i) /\ UNCHANGED ops
    \/ Tick

SpecRevoke == InitRevoke /\ [][NextRevoke]_vars

\* C30: a link has a revoked_at timestamp exactly when active is false, and
\* a revoked_at that is set is never overwritten by a later or concurrent
\* revoke.
C30_RevokedAtStampedOnce ==
    /\ [](\A t \in DOMAIN links : (links[t].revoked_at # <<>>) <=> ~links[t].active)
    /\ [][\A t \in DOMAIN links :
             links[t].revoked_at # <<>> => links'[t].revoked_at = links[t].revoked_at]_vars

(***************************************************************************)
(* Further properties of the handlers                                      *)
(***************************************************************************)
OtherCollectionsUnchanged ==
    /\ users' = users
    /\ forced_groups' = forced_groups
    /\ forced_links' = forced_links
    /\ channels_collection' = channels_collection
    /\ broadcast_history' = broadcast_history

\* C31: the update of a /revoke <identifier> that succeeds changes exactly
\* one link, which was active, was created by the caller and matches the
\* upper-cased identifier by short_id or _id; it sets active = false and
\* revoked_at on it and nothing else; every other link, also one with the
\* same short_id, and every other collection stay as they were.  A /revoke
\* that replies "Link not found" changes nothing.
C31_RevokeChangesOneLink ==
    [][/\ (req[1].op = "revoke_command" /\ req'[1] = Idle) =>
            /\ lastOut'.reply = "link_revoked"
            /\ DOMAIN links' = DOMAIN links
            /\ \E t \in DOMAIN links :
                  /\ links[t].active
                  /\ links[t].created_by = req[1].user
                  /\ links[t].short_id = Upper(req[1].arg) \/ t = Upper(req[1].arg)
                  /\ links'[t] = [links[t] EXCEPT !.active = FALSE, !.revoked_at = <<now>>]
                  /\ \A o \in DOMAIN links \ {t} : links'[o] = links[o]
            /\ OtherCollectionsUnchanged
       /\ (ops' = ops + 1 /\ req' = req /\ lastOut'.op = "revoke_command"
           /\ lastOut'.reply = "link_not_found") =>
            /\ links' = links
            /\ OtherCollectionsUnchanged]_vars

C31_Witness ==
    /\ lastOut.op = "revoke_command"
    /\ lastOut.reply = "link_revoked"
    /\ \E t \in DOMAIN links, o \in DOMAIN links :
          /\ t # o
          /\ lastOut.link_data[1]._id = t
          /\ links[o].short_id = links[t].short_id
          /\ links[o].created_by = links[t].created_by
          /\ ~links[t].active
          /\ links[o].active

ButtonOps == {"remove_forced", "remove_forced_group", "clear_all_forced_groups", "button"}

\* C32: pressing the button with callback data remove_forced_group_<group_id>
\* leaves no forced group with that group_id in forced_groups.
C32_RemoveGroupButtonRemoves ==
    [][(/\ ops' = ops + 1
        /\ lastOut'.op \in ButtonOps
        /\ lastOut'.arg.segs = <<"remove_forced_", "group_">>) =>
            Matching(forced_groups', "group_id", lastOut'.arg.id) = {}]_vars

(***************************************************************************)
(* SpecForceGroup: /forcegroup <link> as its two storage operations, the   *)
(* find_one and the insert_one, run by overlapping handlers.               *)
(***************************************************************************)
InsertForcedGroup_noIndex(coll, doc) == Append(coll, doc)

\* forced_groups_collection.insert_one under the unique index on group_id:
\* a second document with the same group_id is refused
InsertForcedGroup(coll, doc) ==
    IF Matching(coll, "group_id", doc.group_id) # {} THEN coll ELSE Append(coll, doc)

ForceFrame ==
    /\ UNCHANGED <<links, users, SUPPORT_CHANNELS, now, gate, gatePassed, hist, ops>>
    /\ UNCHANGED broadcastVars
    /\ UNCHANGED adminVars

\* forcegroup_command up to its find_one
forcegroup_lookup(i, user_id, group_identifier) ==
    /\ Free(i)
    /\ ForceFrame
    /\ UNCHANGED forced_groups
    /\ IF user_id # ADMIN_ID
       THEN /\ lastOut' = Out("forcegroup", user_id, group_identifier, "admin_required",
                              <<>>, "none", <<>>)
            /\ UNCHANGED req
       ELSE IF ~StartsWithTme(group_identifier)
       THEN /\ lastOut' = Out("forcegroup", user_id, group_identifier, "invalid_link",
                              <<>>, "none", <<>>)
            /\ UNCHANGED req
       ELSE IF Matching(forced_groups, "group_id",
                        ParseGroupLink(group_identifier).group_id) # {}
       THEN /\ lastOut' = Out("forcegroup", user_id, group_identifier, "already_exists",
                              <<>>, "none", <<>>)
            /\ UNCHANGED req
       ELSE /\ req' = [req EXCEPT ![i] =
                        [op |-> "forcegroup", user |-> user_id, arg |-> group_identifier,
                         link_data |-> <<>>]]
            /\ UNCHANGED lastOut

\* forcegroup_command from its insert_one; a refused insert raises
\* DuplicateKeyError out of the handler, which sends no reply
forcegroup_insert(i) ==
    /\ req[i].op = "forcegroup"
    /\ \/ Len(forced_groups) < MaxForced
       \/ Matching(forced_groups, "group_id", ParseGroupLink(req[i].arg).group_id) # {}
    /\ ForceFrame
    /\ forced_groups' = InsertForcedGroup(forced_groups, ParseGroupLink(req[i].arg))
    /\ lastOut' = Out("forcegroup", req[i].user, req[i].arg,
                      IF forced_groups' = forced_groups THEN "exception"
                      ELSE "forced_group_added",
                      <<>>, "none", <<>>)
    /\ req' = [req EXCEPT ![i] = Idle]

InitForceGroup ==
    /\ links = << >>
    /\ users = << >>
    /\ forced_groups = << >>
    /\ SUPPORT_CHANNELS = << >>
    /\ now = 0
    /\ req = [i \in Slots |-> Idle]
    /\ lastOut = NoOut
    /\ gate = IdleGate
    /\ gatePassed = {}
    /\ hist = << >>
    /\ ops = 0
    /\ NoBroadcast
    /\ NoAdmin

NextForceGroup ==
    \/ \E i \in Slots, u \in Users, l \in AdminUrls : forcegroup_lookup(i, u, l)
    \/ \E i \in Slots : forcegroup_insert(i)
    \/ \E u \in Users, g \in {IdAt, IdNum, IdPlus} :
          removeforcegroup_command(u, g)

SpecForceGroup == InitForceGroup /\ [][NextForceGroup]_vars

\* a /forcegroup <link> of the administrator with a valid link ends in this
\* step, and the group of the link is in forced_groups before the step
ForceGroupEndsOnPresent ==
    /\ lastOut' # lastOut
    /\ lastOut'.op = "forcegroup"
    /\ lastOut'.user = ADMIN_ID
    /\ StartsWithTme(lastOut'.arg)
    /\ Matching(forced_groups, "group_id", ParseGroupLink(lastOut'.arg).group_id) # {}

ForcedGroupIdsUnique ==
    \A j, k \in 1..Len(forced_groups) :
        forced_groups[j].group_id = forced_groups[k].group_id => j = k

\* C33 as stated: forced_groups holds at most one record per group_id, and a
\* /forcegroup that ends while its group_id is present replies that the
\* group already exists and leaves forced_groups unchanged, also when it
\* overlaps another /forcegroup for the same group.
C33_ForcedGroupsUniqueAndReported ==
    /\ []ForcedGroupIdsUnique
    /\ [][ForceGroupEndsOnPresent =>
             /\ lastOut'.reply = "already_exists"
             /\ forced_groups' = forced_groups]_vars

\* C33 amended: forced_groups holds at most one record per group_id; a
\* /forcegroup that ends while its group_id is present leaves forced_groups
\* unchanged; it replies that the group already exists when the group was
\* present at its find_one, and ends in an exception without that reply when
\* the group was added by an overlapping /forcegroup after its find_one.
C33_ForcedGroupsUnique ==
    /\ []ForcedGroupIdsUnique
    /\ [][ForceGroupEndsOnPresent =>
             /\ forced_groups' = forced_groups
             /\ lastOut'.reply \in {"already_exists", "exception"}
             /\ (lastOut'.reply = "already_exists") <=> (req' = req)]_vars

C33_Witness ==
    /\ Len(forced_groups) = MaxForced
    /\ lastOut.op = "forcegroup"
    /\ lastOut.reply = "exception"
    /\ Matching(forced_groups, "group_id", ParseGroupLink(lastOut.arg).group_id) # {}
(***************************************************************************)
(* SpecDeep: the deep-link flows (start <token>, check_join_<token>) and   *)
(* the revoke button, at most MaxDeepOps handlers, overlapping, on stores   *)
(* of one active link; the gate evaluation of each flow and every reply    *)
(* are observed.                                                           *)
(***************************************************************************)
\* stores with one active link
OneLinkStores == {f \in ActiveStores : Cardinality(DOMAIN f) = 1}

InitDeep ==
    /\ links \in OneLinkStores
    /\ users = << >>
    /\ forced_groups = OneGroup
    /\ SUPPORT_CHANNELS = <<>>
    /\ now = 0
    /\ req = [i \in Slots |-> Idle]
    /\ lastOut = NoOut
    /\ gate = [IdleGate EXCEPT !.pc = "watch"]
    /\ gatePassed = {}
    /\ hist = [t \in DOMAIN links |-> [calls |-> 0, urls |-> 0, revoked_ok |-> 0]]
    /\ ops = 0
    /\ NoBroadcast
    /\ NoAdmin

\* number of handlers started in a deep-link scenario
MaxDeepOps == 3

DeepStart == ops < MaxDeepOps /\ ops' = ops + 1

NextDeep ==
    \/ \E i \in Slots, u \in Users, t \in TokenPool, ans \in HandlerAnswers,
          dbFail \in BOOLEAN : DeepStart /\ start_begin(i, u, t, ans, dbFail)
    \/ \E i \in Slots, u \in Users, t \in TokenPool, ans \in HandlerAnswers,
          dbFail \in BOOLEAN : DeepStart /\ check_join_begin(i, u, t, ans, dbFail)
    \/ \E i \in Slots : DeepLookup(i) /\ UNCHANGED ops
    \/ \E i \in Slots, u \in Users, t \in TokenPool :
          DeepStart /\ handle_revoke_link_lookup(i, u, t)
    \/ \E i \in Slots : RevokeUpdate(i) /\ UNCHANGED ops

SpecDeep == InitDeep /\ [][NextDeep]_vars

DeepOps == {"start", "check_join"}

\* C34: a deep-link flow goes on to its link lookup only when the gate it
\* evaluated returned true, and a failed gate ends the flow with the join
\* prompt and no lookup result; the lookup shows the Join button exactly when
\* the link of the token is active at that moment, and "expired or revoked"
\* otherwise, also when the link was active when the flow began.
C34_DeepFlowRevalidates ==
    [][\A i \in Slots :
          /\ (req[i] = Idle /\ req'[i].op \in DeepOps) =>
                /\ gate'.out.result
                /\ ~gate'.out.raised
                /\ lastOut' = lastOut
          /\ (req[i].op \in DeepOps /\ req'[i] = Idle) =>
                /\ lastOut'.op = req[i].op
                /\ lastOut'.arg = req[i].arg
                /\ lastOut'.reply \in {"join_button", "expired_or_revoked"}
                /\ (lastOut'.reply = "join_button") <=>
                      (req[i].arg \in DOMAIN links /\ links[req[i].arg].active)
          /\ (req' = req /\ lastOut' # lastOut /\ lastOut'.op \in DeepOps) =>
                /\ ~gate'.out.result
                /\ lastOut'.reply \in {"join_required", "alert_not_joined", "exception"}]_vars

C34_Witness ==
    /\ lastOut.op = "check_join"
    /\ lastOut.reply = "expired_or_revoked"
    /\ lastOut.user \in DOMAIN users
    /\ lastOut.arg \in DOMAIN links
    /\ hist[lastOut.arg].revoked_ok >= 1
    /\ gate.out.result

(***************************************************************************)
(* SpecConfirm: /broadcast proposals of the administrator and the presses  *)
(* of the buttons of their confirmation prompts.  Every callback update is *)
(* a request of its own, so confirmations overlap; req holds them.  A      *)
(* prompt is kept in keyboards with the message it was proposed with; its  *)
(* buttons carry the data "confirm_broadcast" and "cancel_broadcast" only. *)
(***************************************************************************)
MaxProposals == 2
MaxPresses == 3

\* the replied-to messages of the proposals
Messages == {<<"A">>, <<"B">>}

Registries == {[u \in 1..k |-> [user_id |-> u, last_active |-> 0]] : k \in 1..MaxUsers}

InitConfirm ==
    /\ links = << >>
    /\ users \in Registries
    /\ forced_groups = <<>>
    /\ SUPPORT_CHANNELS = <<>>
    /\ now = 0
    /\ req = [i \in Slots |-> Idle]
    /\ lastOut = NoOut
    /\ gate = IdleGate
    /\ gatePassed = {}
    /\ hist = << >>
    /\ ops = 0
    /\ NoBroadcast
    /\ NoAdmin

ConfirmFrame ==
    UNCHANGED <<links, users, forced_groups, SUPPORT_CHANNELS, now, gate,
                gatePassed, hist, bcast, forced_links, channels_collection, invite>>

\* broadcast_command of the administrator in reply to message m: the prompt
\* is sent, then context.user_data['broadcast_message'] = m
broadcast_proposal(m) ==
    /\ Cardinality(keyboards) < MaxProposals
    /\ keyboards' = keyboards \cup
           {[prompt |-> Cardinality(keyboards) + 1, proposed |-> m]}
    /\ user_data' = [u \in DOMAIN user_data \cup {ADMIN_ID} |->
                        IF u = ADMIN_ID THEN m ELSE user_data[u]]
    /\ lastOut' = ButtonOut("broadcast", ADMIN_ID, <<>>, "confirmation_prompt")
    /\ UNCHANGED <<req, ops, broadcast_history, blog>>
    /\ ConfirmFrame

\* button_callback with data "confirm_broadcast" from the prompt p, up to the
\* first iteration of handle_broadcast_confirmation
confirm_broadcast_begin(i, p) ==
    /\ ops < MaxPresses
    /\ ops' = ops + 1
    /\ req[i] = Idle
    /\ p \in keyboards
    /\ LET list == UsersList(users, DOMAIN users)
       IN  req' = [req EXCEPT ![i] =
               [op |-> "confirm_broadcast", user |-> ADMIN_ID, prompt |-> p.prompt,
                b |-> [pc |-> "sending", from_user |-> ADMIN_ID, list |-> list,
                       i |-> 1, total_users |-> Len(list), successful |-> 0,
                       failed |-> 0,
                       message_to_broadcast |-> PendingMessage(user_data, ADMIN_ID),
                       attempts |-> <<>>, copies |-> <<>>]]]
    /\ lastOut' = ButtonOut("button", ADMIN_ID, <<"confirm_broadcast">>, "broadcasting")
    /\ UNCHANGED <<keyboards, user_data, broadcast_history, blog>>
    /\ ConfirmFrame

confirm_broadcast_deliver(i, ok) ==
    /\ req[i].op = "confirm_broadcast"
    /\ req[i].b.i <= Len(req[i].b.list)
    /\ req' = [req EXCEPT ![i].b = DeliverOne(req[i].b, ok)]
    /\ UNCHANGED <<keyboards, user_data, broadcast_history, blog, lastOut, ops>>
    /\ ConfirmFrame

confirm_broadcast_finish(i) ==
    /\ req[i].op = "confirm_broadcast"
    /\ req[i].b.i > Len(req[i].b.list)
    /\ broadcast_history' = Append(broadcast_history,
           [admin_id |-> req[i].b.from_user, date |-> now,
            total_users |-> req[i].b.total_users,
            successful |-> req[i].b.successful, failed |-> req[i].b.failed])
    /\ blog' = Append(blog,
           [prompt |-> req[i].prompt,
            list |-> [k \in 1..Len(req[i].b.list) |-> req[i].b.list[k].user_id],
            message_to_broadcast |-> req[i].b.message_to_broadcast,
            attempts |-> req[i].b.attempts, copies |-> req[i].b.copies])
    /\ req' = [req EXCEPT ![i] = Idle]
    /\ lastOut' = ButtonOut("button", ADMIN_ID, <<"confirm_broadcast">>,
                            "broadcast_complete")
    /\ UNCHANGED <<keyboards, user_data, ops>>
    /\ ConfirmFrame

\* button_callback with data "cancel_broadcast" from the prompt p
cancel_broadcast_pressed(p) ==
    /\ ops < MaxPresses
    /\ ops' = ops + 1
    /\ p \in keyboards
    /\ lastOut' = ButtonOut("button", ADMIN_ID, <<"cancel_broadcast">>,
                            "broadcast_cancelled")
    /\ UNCHANGED <<req, keyboards, user_data, broadcast_history, blog>>
    /\ ConfirmFrame

NextConfirm ==
    \/ \E m \in Messages : broadcast_proposal(m)
    \/ \E i \in Slots, p \in keyboards : confirm_broadcast_begin(i, p)
    \/ \E i \in Slots, ok \in BOOLEAN : confirm_broadcast_deliver(i, ok)
    \/ \E i \in Slots : confirm_broadcast_finish(i)
    \/ \E p \in keyboards : cancel_broadcast_pressed(p)

SpecConfirm == InitConfirm /\ [][NextConfirm]_vars

ProposedWith(n) == (CHOOSE p \in keyboards : p.prompt = n).proposed

\* C36: a confirmation sends the message it was proposed with: every
\* broadcast, finished or in progress, carries the message of the proposal
\* whose prompt was pressed.
C36_ConfirmSendsProposedMessage ==
    /\ \A k \in 1..Len(blog) :
          blog[k].message_to_broadcast = ProposedWith(blog[k].prompt)
    /\ \A i \in Slots :
          req[i].op = "confirm_broadcast" =>
              req[i].b.message_to_broadcast = ProposedWith(req[i].prompt)

\* delivery attempts made to user u for the prompt n, finished and in progress
RECURSIVE CountTo(_, _)
CountTo(copies, u) ==
    IF copies = <<>> THEN 0
    ELSE (IF Head(copies) = u THEN 1 ELSE 0) + CountTo(Tail(copies), u)

RECURSIVE SumFinished(_, _, _)
SumFinished(k, n, u) ==
    IF k = 0 THEN 0
    ELSE (IF blog[k].prompt = n THEN CountTo(blog[k].copies, u) ELSE 0)
         + SumFinished(k - 1, n, u)

RECURSIVE SumInFlight(_, _, _)
SumInFlight(i, n, u) ==
    IF i = 0 THEN 0
    ELSE (IF req[i].op = "confirm_broadcast" /\ req[i].prompt = n
          THEN CountTo(req[i].b.copies, u) ELSE 0)
         + SumInFlight(i - 1, n, u)

\* C37: one proposal yields at most one broadcast: for every prompt, however
\* many confirm_broadcast callbacks arrived for it, every user got at most
\* one delivery attempt and at most one broadcast_history record was
\* written; a cancel_broadcast callback sends nothing and writes no record.
C37_OneBroadcastPerProposal ==
    /\ [](\A p \in keyboards :
            /\ Cardinality({k \in 1..Len(blog) : blog[k].prompt = p.prompt}) <= 1
            /\ \A u \in DOMAIN users :
                  SumFinished(Len(blog), p.prompt, u)
                      + SumInFlight(MaxInFlight, p.prompt, u) <= 1)
    /\ [][(ops' = ops + 1 /\ lastOut'.reply = "broadcast_cancelled") =>
              /\ broadcast_history' = broadcast_history
              /\ blog' = blog
              /\ req' = req]_vars

(***************************************************************************)
(* SpecWebhook: POST /{token}.  Slot 2 of req holds the HTTP request with  *)
(* its path token and update, slot 1 the handler the update is routed to.  *)
(* Requests are taken one after the other.                                 *)
(***************************************************************************)
\* os.environ.get("TELEGRAM_TOKEN"), as characters
TELEGRAM_TOKEN == <<"7", ":", "k">>

\* path tokens: the token, another letter case, a prefix, an extension
PathTokens == {TELEGRAM_TOKEN, Upper(TELEGRAM_TOKEN), Prefix(TELEGRAM_TOKEN, 2),
               TELEGRAM_TOKEN \o <<"k">>}

Updates ==
    [kind : {"start", "protect", "revoke_button"}, user : Users,
     token : {Tok("j"), Tok("k")}, arg : {<<TME, "grp">>}]

TokenAccepted_anyCase(token) == Upper(token) = Upper(TELEGRAM_TOKEN)

\* "if token != os.environ.get('TELEGRAM_TOKEN'): raise HTTPException(403)"
TokenAccepted(token) == token = TELEGRAM_TOKEN

InitWebhook ==
    /\ links = << >>
    /\ users = << >>
    /\ forced_groups = OneGroup
    /\ SUPPORT_CHANNELS = <<>>
    /\ now = 0
    /\ req = [i \in Slots |-> Idle]
    /\ lastOut = NoOut
    /\ gate = IdleGate
    /\ gatePassed = {}
    /\ hist = << >>
    /\ ops = 0
    /\ NoBroadcast
    /\ NoAdmin

\* a request arrives
WebhookRequest(token, update) ==
    /\ ops < MaxOps
    /\ \A i \in Slots : req[i] = Idle
    /\ req' = [req EXCEPT ![2] = [op |-> "telegram_webhook", user |-> update.user,
                                  arg |-> token, link_data |-> <<update>>, n |-> ops]]
    /\ UNCHANGED <<links, users, forced_groups, SUPPORT_CHANNELS, now, lastOut,
                   gate, gatePassed, hist, ops>>
    /\ UNCHANGED broadcastVars
    /\ UNCHANGED adminVars

\* telegram_bot_app.process_update(update): the update is routed to its
\* handler
process_update(update, ans, dbFail) ==
    \/ /\ update.kind = "start"
       /\ start_begin(1, update.user, update.token, ans, dbFail)
    \/ /\ update.kind = "protect"
       /\ protect_command(update.user, update.arg, update.token, ans, dbFail)
    \/ /\ update.kind = "revoke_button"
       /\ handle_revoke_link_lookup(1, update.user, update.token)

telegram_webhook(ans, dbFail) ==
    /\ req[2].op = "telegram_webhook"
    /\ req[2].n = ops
    /\ ops' = ops + 1
    /\ IF ~TokenAccepted(req[2].arg)
       THEN /\ req' = [req EXCEPT ![2] = Idle]
            /\ lastOut' = Out("telegram_webhook", 0, req[2].arg, "403", <<>>, "none", <<>>)
            /\ UNCHANGED <<links, users, forced_groups, SUPPORT_CHANNELS, now,
                           gate, gatePassed, hist>>
            /\ UNCHANGED broadcastVars
            /\ UNCHANGED adminVars
       ELSE process_update(req[2].link_data[1], ans, dbFail)

\* "return Response(status_code=200)" once the handler has returned
WebhookReturn ==
    /\ req[2].op = "telegram_webhook"
    /\ req[2].n < ops
    /\ req[1] = Idle
    /\ req' = [req EXCEPT ![2] = Idle]
    /\ UNCHANGED <<links, users, forced_groups, SUPPORT_CHANNELS, now, lastOut,
                   gate, gatePassed, hist, ops>>
    /\ UNCHANGED broadcastVars
    /\ UNCHANGED adminVars

NextWebhook ==
    \/ \E token \in PathTokens, update \in Updates : WebhookRequest(token, update)
    \/ \E ans \in HandlerAnswers, dbFail \in BOOLEAN : telegram_webhook(ans, dbFail)
    \/ DeepLookup(1) /\ UNCHANGED ops
    \/ RevokeUpdate(1) /\ UNCHANGED ops
    \/ WebhookReturn

SpecWebhook == InitWebhook /\ [][NextWebhook]_vars

CollectionsUnchanged ==
    /\ links' = links
    /\ OtherCollectionsUnchanged

\* C38: while the request in hand carries a path token other than
\* TELEGRAM_TOKEN, no collection changes and no handler starts, and the
\* request ends with status 403; a collection changes or a handler runs only
\* while the request in hand carries TELEGRAM_TOKEN.
C38_WebhookTokenChecked ==
    [][/\ (req[2].op = "telegram_webhook" /\ req[2].arg # TELEGRAM_TOKEN) =>
              /\ CollectionsUnchanged
              /\ req'[1] = Idle
              /\ lastOut' # lastOut => lastOut'.reply = "403"
              /\ req'[2] # req[2] =>
                    /\ req'[2] = Idle
                    /\ lastOut' = Out("telegram_webhook", 0, req[2].arg, "403",
                                      <<>>, "none", <<>>)
       /\ (~CollectionsUnchanged \/ req'[1] # req[1]) =>
              /\ req[2].op = "telegram_webhook"
              /\ req[2].arg = TELEGRAM_TOKEN]_vars

C38_Witness ==
    /\ lastOut.op = "telegram_webhook"
    /\ lastOut.reply = "403"
    /\ lastOut.arg = Upper(TELEGRAM_TOKEN)
    /\ DOMAIN links # {}
    /\ req[2] = Idle

(***************************************************************************)
(* SpecUsers: the users collection as the documents it holds, under the    *)
(* update_one(..., upsert=True) of start and store_message.  The server    *)
(* matches the filter and then writes; overlapping upserts interleave      *)
(* between the two.  An insert goes through the unique index on user_id.   *)
(***************************************************************************)
UserHandlers == {"start", "store_message"}

\* the $set of the handler applied to a document: start sets username,
\* first_name and last_active, store_message last_active only
SetFields(doc, handler, t) ==
    [doc EXCEPT !.last_active = t,
                !.profile = IF handler = "start" THEN TRUE ELSE @]

NewUserDoc(user_id, handler, t) ==
    SetFields([user_id |-> user_id, profile |-> FALSE, last_active |-> t], handler, t)

UpdateMatching(coll, user_id, handler, t) ==
    [k \in 1..Len(coll) |->
        IF k = First(Matching(coll, "user_id", user_id))
        THEN SetFields(coll[k], handler, t) ELSE coll[k]]

UpsertWrite_noIndex(coll, hit, user_id, handler, t) ==
    IF hit THEN UpdateMatching(coll, user_id, handler, t)
    ELSE Append(coll, NewUserDoc(user_id, handler, t))

\* the write of an upsert whose match found a document (hit) or none: an
\* insert that the unique index refuses is carried out as an update of the
\* document that is there
UpsertWrite(coll, hit, user_id, handler, t) ==
    IF hit \/ Matching(coll, "user_id", user_id) # {}
    THEN UpdateMatching(coll, user_id, handler, t)
    ELSE Append(coll, NewUserDoc(user_id, handler, t))

InitUsers ==
    /\ links = << >>
    /\ users = <<>>
    /\ forced_groups = <<>>
    /\ SUPPORT_CHANNELS = <<>>
    /\ now = 0
    /\ req = [i \in Slots |-> Idle]
    /\ lastOut = NoOut
    /\ gate = IdleGate
    /\ gatePassed = {}
    /\ hist = << >>
    /\ ops = 0
    /\ NoBroadcast
    /\ NoAdmin

UsersFrame ==
    /\ UNCHANGED <<links, forced_groups, SUPPORT_CHANNELS, now, gate, gatePassed,
                   hist, ops>>
    /\ UNCHANGED broadcastVars
    /\ UNCHANGED adminVars

\* the filter {"user_id": user_id} is matched
upsert_match(i, handler, user_id) ==
    /\ req[i] = Idle
    /\ req' = [req EXCEPT ![i] =
                  [op |-> handler, user |-> user_id, arg |-> <<>>, link_data |-> <<>>,
                   hit |-> Matching(users, "user_id", user_id) # {}]]
    /\ UNCHANGED <<users, lastOut>>
    /\ UsersFrame

upsert_write(i) ==
    /\ req[i].op \in UserHandlers
    /\ users' = UpsertWrite(users, req[i].hit, req[i].user, req[i].op, now)
    /\ lastOut' = Out(req[i].op, req[i].user, <<>>,
                      IF req[i].hit THEN "updated"
                      ELSE IF Matching(users, "user_id", req[i].user) # {}
                      THEN "duplicate_updated" ELSE "inserted",
                      <<>>, "none", <<>>)
    /\ req' = [req EXCEPT ![i] = Idle]
    /\ UsersFrame

NextUsers ==
    \/ \E i \in Slots, u \in Users : upsert_match(i, "start", u)
    \/ \E i \in Slots, u \in Users : upsert_match(i, "store_message", u)
    \/ \E i \in Slots : upsert_write(i)
    \/ Tick

SpecUsers == InitUsers /\ [][NextUsers]_vars

\* C39: the users collection holds at most one record per user_id, and an
\* upsert for user U leaves every other user's record as it was, removes no
\* record and adds at most a record of U, in every interleaving of the
\* upserts of start and store_message.
C39_UsersUniqueAndIsolated ==
    /\ [](\A j, k \in 1..Len(users) :
              users[j].user_id = users[k].user_id => j = k)
    /\ [][\A i \in Slots :
              (req[i].op \in UserHandlers /\ req'[i] = Idle) =>
                  /\ Len(users') >= Len(users)
                  /\ Len(users') <= Len(users) + 1
                  /\ \A k \in 1..Len(users) :
                        /\ users'[k].user_id = users[k].user_id
                        /\ users[k].user_id # req[i].user => users'[k] = users[k]
                  /\ Len(users') > Len(users) =>
                        users'[Len(users')].user_id = req[i].user]_vars

C39_Witness ==
    /\ lastOut.reply = "duplicate_updated"
    /\ Len(users) = MaxUsers
    /\ \E k \in 1..Len(users) :
          /\ users[k].user_id # lastOut.user
          /\ users[k].last_active < now

====
